---- MODULE Spec2Model ----
(***************************************************************************)
(* A model of the ENGLANG interpreter (src/englang.c).                     *)
(*                                                                         *)
(* Text is a TLA+ string; a character is a string of length 1.  A number   *)
(* (the C double) is an exact rational <<p, q>> in lowest terms with       *)
(* q > 0: rounding, overflow, infinities and NaN of IEEE doubles are       *)
(* outside the model, and the input alphabet has no "inf", "nan" or hex    *)
(* literals.  The host call stack of execute()/exec_line() is the          *)
(* sequence `frames`.                                                      *)
(***************************************************************************)
EXTENDS Integers, Sequences, FiniteSets, TLC

VARIABLES
    lines,       \* char *lines[]: the loaded program, one string per line
    vars,        \* Var vars[]: name -> Value, for the slots in use
    arrays,      \* Array arrays[]: name -> [size, data], for the slots in use
    funcs,       \* FuncDef funcs[]: the entries written so far, in order
    func_count,  \* int func_count
    mem,         \* double mem[]: address -> number
    data_stack,  \* double data_stack[]: slot (0-based) -> number
    stack_top,   \* int stack_top
    frames,      \* the active execute() calls, outermost first
    phase,       \* where main() is: "collect", "run", "done", "exit"
    scan,        \* the loop index i of collect_funcs
    status,      \* the process exit status once phase is "done" or "exit"
    out,         \* lines written to stdout
    err,         \* diagnostics written to stderr
    hits,        \* history: line index -> number of exec_line calls on it
    oob          \* TRUE once a write went past the end of funcs[]

vars_all == <<lines, vars, arrays, funcs, func_count, mem, data_stack,
              stack_top, frames, phase, scan, status, out, err, hits, oob>>

(***************************************************************************)
(* Program constants.                                                      *)
(***************************************************************************)
MAX_VARS == 512
MAX_NAME == 64
MAX_STACK == 512
MAX_FUNCS == 256
MAX_MEM == 1024
MAX_ARRAYS == 64
MAX_ARRAY_SIZE == 1024
MAX_TOK == 32
MAX_WORDS == 32
MAX_PARAMS == 8
STR_SIZE == 256

(***************************************************************************)
(* Characters and strings.                                                 *)
(***************************************************************************)
Ch(s, i) == SubSeq(s, i, i)

isspace(c) == c \in {" ", "\t"}

isdigit(c) == c \in {"0", "1", "2", "3", "4", "5", "6", "7", "8", "9"}

DigitVal(c) ==
    CASE c = "0" -> 0 [] c = "1" -> 1 [] c = "2" -> 2 [] c = "3" -> 3
      [] c = "4" -> 4 [] c = "5" -> 5 [] c = "6" -> 6 [] c = "7" -> 7
      [] c = "8" -> 8 [] c = "9" -> 9

\* strncpy(dst, src, n) followed by a terminator: the first n characters
strncpy(s, n) == IF Len(s) > n THEN SubSeq(s, 1, n) ELSE s

RECURSIVE SkipSpace(_, _)
\* while (isspace(*p)) p++ : the first position >= p holding no whitespace
SkipSpace(s, p) ==
    IF p <= Len(s) /\ isspace(Ch(s, p)) THEN SkipSpace(s, p + 1) ELSE p

RECURSIVE SkipNonSpace(_, _)
\* while (*p && !isspace(*p)) p++
SkipNonSpace(s, p) ==
    IF p <= Len(s) /\ ~isspace(Ch(s, p)) THEN SkipNonSpace(s, p + 1) ELSE p

RECURSIVE SkipToQuote(_, _)
\* while (*p && *p != '"') p++
SkipToQuote(s, p) ==
    IF p <= Len(s) /\ Ch(s, p) # "\"" THEN SkipToQuote(s, p + 1) ELSE p

RECURSIVE TrimEnd(_, _, _)
\* while (e > s && isspace(*e)) *e-- = '\0' : the last position kept
TrimEnd(str, s, e) ==
    IF e > s /\ isspace(Ch(str, e)) THEN TrimEnd(str, s, e - 1) ELSE e

trim(str) ==
    LET s == SkipSpace(str, 1)
        e == TrimEnd(str, s, Len(str))
    IN  IF s > Len(str) THEN "" ELSE SubSeq(str, s, e)

startswith(s, prefix) ==
    Len(s) >= Len(prefix) /\ SubSeq(s, 1, Len(prefix)) = prefix

RECURSIVE TokenizeFrom(_, _, _, _)
TokenizeFrom(line, p, count, max_tok) ==
    IF ~(p <= Len(line) /\ count < max_tok) THEN << >>
    ELSE LET s == SkipSpace(line, p)
         IN  IF s > Len(line) THEN << >>
             ELSE IF Ch(line, s) = "\""
                  THEN LET q == SkipToQuote(line, s + 1)
                           e == IF q <= Len(line) THEN q + 1 ELSE q
                           len == IF e - s >= MAX_NAME THEN MAX_NAME - 1 ELSE e - s
                       IN  <<SubSeq(line, s, s + len - 1)>>
                               \o TokenizeFrom(line, e, count + 1, max_tok)
                  ELSE LET e == SkipNonSpace(line, s)
                           len == IF e - s >= MAX_NAME THEN MAX_NAME - 1 ELSE e - s
                       IN  <<SubSeq(line, s, s + len - 1)>>
                               \o TokenizeFrom(line, e, count + 1, max_tok)

\* the tokens of a line; tc is the length of the result
tokenize(line, max_tok) == TokenizeFrom(line, 1, 0, max_tok)

(***************************************************************************)
(* Numbers: the double of the C code as an exact rational <<p, q>>.        *)
(***************************************************************************)
Abs(n) == IF n < 0 THEN -n ELSE n

RECURSIVE Gcd(_, _)
Gcd(a, b) == IF b = 0 THEN a ELSE Gcd(b, a % b)

Norm(p, q) ==
    LET g == Gcd(Abs(p), Abs(q))
        sg == IF q < 0 THEN -1 ELSE 1
    IN  IF p = 0 THEN <<0, 1>> ELSE <<sg * (p \div g), Abs(q) \div g>>

Num(n) == <<n, 1>>

RAdd(a, b) == Norm(a[1] * b[2] + b[1] * a[2], a[2] * b[2])
RSub(a, b) == Norm(a[1] * b[2] - b[1] * a[2], a[2] * b[2])
RMul(a, b) == Norm(a[1] * b[1], a[2] * b[2])
\* a / b for b # 0
RDiv(a, b) == Norm(a[1] * b[2], a[2] * b[1])
RLt(a, b) == a[1] * b[2] < b[1] * a[2]
RLe(a, b) == a[1] * b[2] <= b[1] * a[2]
RGt(a, b) == RLt(b, a)
RGe(a, b) == RLe(b, a)

\* (int)x and (long)x: truncation toward zero
Trunc(a) == IF a[1] >= 0 THEN a[1] \div a[2] ELSE -((-a[1]) \div a[2])

\* a % b of C on integers, b # 0: the remainder has the sign of a
CRem(a, b) == IF a >= 0 THEN a % Abs(b) ELSE -((-a) % Abs(b))

RECURSIVE Pow10(_)
Pow10(n) == IF n <= 0 THEN 1 ELSE 10 * Pow10(n - 1)

RECURSIVE RPowNat(_, _)
RPowNat(x, n) == IF n = 0 THEN <<1, 1>> ELSE RMul(x, RPowNat(x, n - 1))

\* pow(x, y): exact for an integer exponent; other exponents are outside the
\* number domain of the model and are truncated to an integer first
pow(x, y) ==
    LET n == Trunc(y)
    IN  IF n >= 0 THEN RPowNat(x, n)
        ELSE IF x[1] = 0 THEN <<0, 1>>
        ELSE RDiv(<<1, 1>>, RPowNat(x, -n))

RECURSIVE ISqrtFrom(_, _)
ISqrtFrom(n, r) == IF (r + 1) * (r + 1) > n THEN r ELSE ISqrtFrom(n, r + 1)

\* sqrt(x): exact for the square of a rational; other arguments are outside
\* the number domain of the model (rounded down, negative ones to 0)
sqrt(x) ==
    IF x[1] <= 0 THEN <<0, 1>>
    ELSE Norm(ISqrtFrom(x[1], 0), ISqrtFrom(x[2], 0))

fabs(x) == <<Abs(x[1]), x[2]>>

(***************************************************************************)
(* strtod / atof: the longest prefix of s that is a decimal floating       *)
(* literal.  end is the position of the first character not consumed       *)
(* (1 when nothing converts, Len(s) + 1 when all of s is consumed).        *)
(***************************************************************************)
RECURSIVE DigitsEnd(_, _)
DigitsEnd(s, p) ==
    IF p <= Len(s) /\ isdigit(Ch(s, p)) THEN DigitsEnd(s, p + 1) ELSE p

RECURSIVE DigitsVal(_, _, _)
\* the value of the digits at positions from .. to - 1
DigitsVal(s, from, to) ==
    IF from >= to THEN 0
    ELSE 10 * DigitsVal(s, from, to - 1) + DigitVal(Ch(s, to - 1))

\* the value of mantissa digits mant, nFrac of them after the point, times
\* ten to the power expo
StrtodValue(neg, mant, nFrac, expo) ==
    IF expo - nFrac >= 0
    THEN Norm((IF neg THEN -mant ELSE mant) * Pow10(expo - nFrac), 1)
    ELSE Norm(IF neg THEN -mant ELSE mant, Pow10(nFrac - expo))

\* the exponent part: e1 .. e2 - 1 are its digits; there is none when
\* e2 = e1, and then the literal ends before p3
StrtodExp(s, neg, mant, nFrac, p3, eNeg, e1, e2) ==
    [val |-> StrtodValue(neg, mant, nFrac,
                         IF eNeg THEN -DigitsVal(s, e1, e2)
                         ELSE DigitsVal(s, e1, e2)),
     end |-> IF e2 > e1 THEN e2 ELSE p3]

\* after the mantissa, which ends before p3: an optional e, sign and digits
StrtodTail(s, neg, mant, nFrac, p3, e1) ==
    StrtodExp(s, neg, mant, nFrac, p3,
              p3 + 1 <= Len(s) /\ Ch(s, p3 + 1) = "-", e1,
              IF p3 <= Len(s) /\ Ch(s, p3) \in {"e", "E"} THEN DigitsEnd(s, e1)
              ELSE e1)

\* the mantissa: integer digits p1 .. p2 - 1, fraction digits up to p3 - 1
StrtodMant(s, neg, p1, p2, hasDot, p3) ==
    IF (p2 - p1) + (IF hasDot THEN p3 - (p2 + 1) ELSE 0) = 0
    THEN [val |-> <<0, 1>>, end |-> 1]
    ELSE StrtodTail(s, neg,
                    IF hasDot
                    THEN DigitsVal(s, p1, p2) * Pow10(p3 - (p2 + 1))
                             + DigitsVal(s, p2 + 1, p3)
                    ELSE DigitsVal(s, p1, p2),
                    IF hasDot THEN p3 - (p2 + 1) ELSE 0,
                    p3,
                    IF p3 + 1 <= Len(s) /\ Ch(s, p3 + 1) \in {"+", "-"}
                    THEN p3 + 2 ELSE p3 + 1)

StrtodDigits(s, neg, p1, p2) ==
    StrtodMant(s, neg, p1, p2, p2 <= Len(s) /\ Ch(s, p2) = ".",
               IF p2 <= Len(s) /\ Ch(s, p2) = "." THEN DigitsEnd(s, p2 + 1) ELSE p2)

\* the digits start at p1, after an optional sign
StrtodSign(s, neg, p1) == StrtodDigits(s, neg, p1, DigitsEnd(s, p1))

\* p0 is the first position after leading whitespace
StrtodStart(s, p0) ==
    StrtodSign(s, p0 <= Len(s) /\ Ch(s, p0) = "-",
               IF p0 <= Len(s) /\ Ch(s, p0) \in {"+", "-"} THEN p0 + 1 ELSE p0)

strtod(s) == StrtodStart(s, SkipSpace(s, 1))

\* (mutant) the text is read as an integer: the fraction is dropped
AtofInteger(s) == <<Trunc(strtod(s).val), 1>>

atof(s) == strtod(s).val

(***************************************************************************)
(* printf("%g"): six significant digits, trailing zeros removed, exponent  *)
(* form when the decimal exponent is < -4 or >= 6.                         *)
(***************************************************************************)
DigitChar(d) == Ch("0123456789", d + 1)

RECURSIVE NatStr(_)
NatStr(n) == IF n < 10 THEN DigitChar(n) ELSE NatStr(n \div 10) \o DigitChar(n % 10)

RECURSIVE StripZeros(_)
StripZeros(s) ==
    IF Len(s) > 0 /\ Ch(s, Len(s)) = "0" THEN StripZeros(SubSeq(s, 1, Len(s) - 1))
    ELSE s

RECURSIVE Zeros(_)
Zeros(n) == IF n <= 0 THEN "" ELSE "0" \o Zeros(n - 1)

RECURSIVE ExpUp(_, _, _)
\* the largest X >= x with q * 10^X <= a, for a >= q * 10^x
ExpUp(a, q, x) == IF a >= q * Pow10(x + 1) THEN ExpUp(a, q, x + 1) ELSE x

RECURSIVE ExpDown(_, _, _)
\* the largest X <= x with q <= a * 10^(-X), for a < q
ExpDown(a, q, x) == IF a * Pow10(-x) >= q THEN x ELSE ExpDown(a, q, x - 1)

\* n / d rounded to the nearest integer, ties to even
RoundDiv(n, d) ==
    LET f == n \div d
        r == n % d
    IN  IF 2 * r > d \/ (2 * r = d /\ f % 2 = 1) THEN f + 1 ELSE f

\* the six digits ds of the value with decimal exponent X, as %g lays them out
FormatDigits(sgn, ds, X) ==
    IF X < -4 \/ X >= 6
    THEN sgn \o Ch(ds, 1)
             \o (IF StripZeros(SubSeq(ds, 2, 6)) = "" THEN ""
                 ELSE "." \o StripZeros(SubSeq(ds, 2, 6)))
             \o "e" \o (IF X < 0 THEN "-" ELSE "+")
             \o (IF Abs(X) < 10 THEN "0" ELSE "") \o NatStr(Abs(X))
    ELSE IF X >= 0
    THEN sgn \o SubSeq(ds, 1, X + 1)
             \o (IF StripZeros(SubSeq(ds, X + 2, 6)) = "" THEN ""
                 ELSE "." \o StripZeros(SubSeq(ds, X + 2, 6)))
    ELSE sgn \o "0." \o Zeros(-X - 1) \o StripZeros(ds)

\* d0 is the value scaled to six digits and rounded; rounding up to seven
\* digits moves the exponent
FormatRounded(sgn, d0, x0) ==
    IF d0 >= 1000000 THEN FormatDigits(sgn, NatStr(100000), x0 + 1)
    ELSE FormatDigits(sgn, NatStr(d0), x0)

\* a / q > 0 with decimal exponent x0
FormatScaled(sgn, a, q, x0) ==
    FormatRounded(sgn,
                  IF x0 <= 5 THEN RoundDiv(a * Pow10(5 - x0), q)
                  ELSE RoundDiv(a, q * Pow10(x0 - 5)),
                  x0)

FormatG(x) ==
    IF x[1] = 0 THEN "0"
    ELSE FormatScaled(IF x[1] < 0 THEN "-" ELSE "", Abs(x[1]), x[2],
                      IF Abs(x[1]) >= x[2] THEN ExpUp(Abs(x[1]), x[2], 0)
                      ELSE ExpDown(Abs(x[1]), x[2], -1))

(***************************************************************************)
(* Values and the variable table.                                          *)
(***************************************************************************)
TYPE_NUM == "TYPE_NUM"
TYPE_STR == "TYPE_STR"

\* a Value struct: all three fields are kept, as assignments to one field
\* leave the others as they were
MkValue(t, n, s) == [type |-> t, num |-> n, str |-> s]

\* the value of zero-initialised static storage and of a new variable
ZeroValue == MkValue(TYPE_NUM, <<0, 1>>, "")

find_var(vs, name) == name \in DOMAIN vs

\* get_or_create_var reaches exit(1): no slot holds name and none is free
VarTableFull(vs, name) ==
    ~find_var(vs, name) /\ Cardinality(DOMAIN vs) >= MAX_VARS

\* the variable table after get_or_create_var(name) has returned
get_or_create_var(vs, name) ==
    IF find_var(vs, name) THEN vs
    ELSE [n \in DOMAIN vs \cup {strncpy(name, MAX_NAME - 1)} |->
             IF n \in DOMAIN vs THEN vs[n] ELSE ZeroValue]

\* v->val.type = TYPE_NUM; v->val.num = x
SetNum(vs, name, x) == [vs EXCEPT ![name].type = TYPE_NUM, ![name].num = x]

\* v->val = val
SetVal(vs, name, val) == [vs EXCEPT ![name] = val]

find_array(as, name) == name \in DOMAIN as

ArrayTableFull(as, name) ==
    ~find_array(as, name) /\ Cardinality(DOMAIN as) >= MAX_ARRAYS

\* data holds the slots written so far; every other slot holds ZeroValue
get_or_create_array(as, name) ==
    IF find_array(as, name) THEN as
    ELSE [n \in DOMAIN as \cup {strncpy(name, MAX_NAME - 1)} |->
             IF n \in DOMAIN as THEN as[n] ELSE [size |-> 0, data |-> << >>]]

\* a->data[i] for 0 <= i < MAX_ARRAY_SIZE
ArrayData(a, i) == IF i \in DOMAIN a.data THEN a.data[i] ELSE ZeroValue

\* f with f[i] set to v, for a table kept as the set of slots written
Store(f, i, v) == [j \in DOMAIN f \cup {i} |-> IF j = i THEN v ELSE f[j]]

\* mem[a] and data_stack[a]: zero until written
Cell(f, a) == IF a \in DOMAIN f THEN f[a] ELSE <<0, 1>>

(***************************************************************************)
(* Value resolution.                                                       *)
(***************************************************************************)
\* a token that starts with a quote: the text of a string literal is the
\* strlen - 2 characters after the first
ResolveLiteral(token, copy) ==
    MkValue(TYPE_STR, <<0, 1>>,
            SubSeq(token, 2, (IF copy >= STR_SIZE THEN STR_SIZE - 1 ELSE copy) + 1))

\* (mutant) a variable of that name is looked up before the number is read
ResolveVariableFirst(vs, token, d) ==
    IF find_var(vs, token) THEN vs[token]
    ELSE IF d.end = Len(token) + 1 THEN MkValue(TYPE_NUM, d.val, "")
    ELSE MkValue(TYPE_STR, <<0, 1>>, strncpy(token, STR_SIZE - 1))

\* any other token, d being what strtod made of it
ResolveWord(vs, token, d) ==
    IF d.end = Len(token) + 1 THEN MkValue(TYPE_NUM, d.val, "")
    ELSE IF find_var(vs, token) THEN vs[token]
    ELSE MkValue(TYPE_STR, <<0, 1>>, strncpy(token, STR_SIZE - 1))

resolve(vs, token) ==
    IF Len(token) > 0 /\ Ch(token, 1) = "\""
    THEN ResolveLiteral(token, IF Len(token) > 2 THEN Len(token) - 2 ELSE 0)
    ELSE ResolveWord(vs, token, strtod(token))

\* the numeric projection of a value: text counts as 0
NumOf(v) == IF v.type = TYPE_STR THEN <<0, 1>> ELSE v.num

\* the text projection of a value: a number is printed with %g
StrOf(v) ==
    IF v.type = TYPE_NUM THEN strncpy(FormatG(v.num), STR_SIZE - 1)
    ELSE strncpy(v.str, STR_SIZE - 1)

resolve_num(vs, token) == NumOf(resolve(vs, token))

resolve_str(vs, token) == StrOf(resolve(vs, token))

(***************************************************************************)
(* Condition evaluation.                                                   *)
(***************************************************************************)
RECURSIVE JoinFrom(_, _, _)
\* words[from .. to - 1] (0-based) joined by single spaces
JoinFrom(words, from, to) ==
    IF from >= to \/ from >= Len(words) THEN ""
    ELSE IF from + 1 >= to \/ from + 1 >= Len(words) THEN words[from + 1]
    ELSE words[from + 1] \o " " \o JoinFrom(words, from + 1, to)

RECURSIVE StrtokFrom(_, _, _)
\* strtok(s, " \t") repeated while fewer than MAX_WORDS words are stored
StrtokFrom(s, p, wc) ==
    LET b == SkipSpace(s, p)
        e == SkipNonSpace(s, b)
    IN  IF b > Len(s) \/ wc >= MAX_WORDS THEN << >>
        ELSE <<SubSeq(s, b, e - 1)>> \o StrtokFrom(s, e, wc + 1)

RECURSIVE IndexOf(_, _, _)
\* the first 0-based index >= from holding word w, or -1
IndexOf(words, w, from) ==
    IF from >= Len(words) THEN -1
    ELSE IF words[from + 1] = w THEN from
    ELSE IndexOf(words, w, from + 1)

\* words[k] for the 0-based index k
W(words, k) == words[k + 1]

\* (mutant) the two-word operators are tried before the five-word ones
CondOpShortFirst(words, op_start) ==
    LET wc == Len(words)
        at(k, w) == op_start + k < wc /\ W(words, op_start + k) = w
    IN  IF op_start + 2 < wc /\ at(0, "greater") /\ at(1, "than")
        THEN [op |-> ">", rhs_start |-> op_start + 2]
        ELSE IF op_start + 2 < wc /\ at(0, "less") /\ at(1, "than")
        THEN [op |-> "<", rhs_start |-> op_start + 2]
        ELSE IF op_start + 2 < wc /\ at(0, "equal") /\ at(1, "to")
        THEN [op |-> "==", rhs_start |-> op_start + 2]
        ELSE IF op_start < wc /\ at(0, "empty")
        THEN [op |-> "empty", rhs_start |-> op_start + 1]
        ELSE IF op_start < wc /\ at(0, "zero")
        THEN [op |-> "zero", rhs_start |-> op_start + 1]
        ELSE [op |-> "", rhs_start |-> op_start]

\* the operator of a condition and the index where its right operand starts
CondOp(words, op_start) ==
    LET wc == Len(words)
        at(k, w) == op_start + k < wc /\ W(words, op_start + k) = w
    IN  IF op_start + 3 < wc /\ at(0, "greater") /\ at(1, "than") /\ at(2, "or")
              /\ at(3, "equal") /\ op_start + 4 < wc /\ at(4, "to")
        THEN [op |-> ">=", rhs_start |-> op_start + 5]
        ELSE IF op_start + 3 < wc /\ at(0, "less") /\ at(1, "than") /\ at(2, "or")
              /\ at(3, "equal") /\ op_start + 4 < wc /\ at(4, "to")
        THEN [op |-> "<=", rhs_start |-> op_start + 5]
        ELSE IF op_start + 2 < wc /\ at(0, "greater") /\ at(1, "than")
        THEN [op |-> ">", rhs_start |-> op_start + 2]
        ELSE IF op_start + 2 < wc /\ at(0, "less") /\ at(1, "than")
        THEN [op |-> "<", rhs_start |-> op_start + 2]
        ELSE IF op_start + 2 < wc /\ at(0, "equal") /\ at(1, "to")
        THEN [op |-> "==", rhs_start |-> op_start + 2]
        ELSE IF op_start < wc /\ at(0, "empty")
        THEN [op |-> "empty", rhs_start |-> op_start + 1]
        ELSE IF op_start < wc /\ at(0, "zero")
        THEN [op |-> "zero", rhs_start |-> op_start + 1]
        ELSE [op |-> "", rhs_start |-> op_start]

\* the comparison of the resolved operands lv and rv
CondCompare(op, lv, rv) ==
    CASE op = "empty" -> IF lv.type = TYPE_STR THEN lv.str = "" ELSE FALSE
      [] op = "zero" -> NumOf(lv) = <<0, 1>>
      [] op = ">" -> RGt(NumOf(lv), NumOf(rv))
      [] op = "<" -> RLt(NumOf(lv), NumOf(rv))
      [] op = ">=" -> RGe(NumOf(lv), NumOf(rv))
      [] op = "<=" -> RLe(NumOf(lv), NumOf(rv))
      [] op = "==" -> IF lv.type = TYPE_STR \/ rv.type = TYPE_STR
                      THEN StrOf(lv) = StrOf(rv)
                      ELSE lv.num = rv.num
      [] OTHER -> FALSE

\* the comparison itself, before `not` is applied
CondResult(vs, op, lhs, rhs) == CondCompare(op, resolve(vs, lhs), resolve(vs, rhs))

\* the operator is known: build the right operand and compare
CondApply(vs, words, lhs, neg, co) ==
    neg # CondResult(vs, co.op, lhs, JoinFrom(words, co.rhs_start, Len(words)))

\* `is` stands at is_idx >= 0
CondAfterIs(vs, words, is_idx, neg) ==
    CondApply(vs, words, JoinFrom(words, 0, is_idx), neg,
              CondOp(words, IF neg THEN is_idx + 2 ELSE is_idx + 1))

CondWords(vs, words, is_idx) ==
    IF Len(words) < 3 THEN FALSE
    ELSE IF is_idx < 0 THEN FALSE
    ELSE CondAfterIs(vs, words, is_idx,
                     is_idx + 1 < Len(words) /\ W(words, is_idx + 1) = "not")

EvalWords(vs, words) == CondWords(vs, words, IndexOf(words, "is", 0))

eval_condition(vs, cond_str) == EvalWords(vs, StrtokFrom(trim(cond_str), 1, 0))

(***************************************************************************)
(* Block resolution.                                                       *)
(***************************************************************************)
line_count == Len(lines)

\* lines[i] for the 0-based index i
Line(i) == lines[i + 1]

\* the test find_end and the `otherwise` search use for a block opener
OpensBlock(l) ==
    startswith(l, "if ") \/ startswith(l, "while ")
        \/ startswith(l, "repeat ") \/ startswith(l, "define ")

RECURSIVE FindEndFrom(_, _, _)
FindEndFrom(i, depth, end_keyword) ==
    IF i >= line_count THEN line_count
    ELSE LET l == trim(Line(i))
             d1 == IF OpensBlock(l) THEN depth + 1 ELSE depth
             d2 == IF startswith(l, end_keyword) \/ startswith(l, "end ")
                   THEN d1 - 1 ELSE d1
         IN  IF d2 = 0 THEN i ELSE FindEndFrom(i + 1, d2, end_keyword)

find_end(from, end_keyword) == FindEndFrom(from + 1, 1, end_keyword)

RECURSIVE FindOtherwiseFrom(_, _, _)
\* the `otherwise` line of the if block, searched in (idx, end_if), or -1
FindOtherwiseFrom(i, depth, end_if) ==
    IF i >= end_if THEN -1
    ELSE LET l == trim(Line(i))
             d1 == IF OpensBlock(l) THEN depth + 1 ELSE depth
             d2 == IF startswith(l, "end ") THEN d1 - 1 ELSE d1
         IN  IF d2 = 1 /\ startswith(l, "otherwise") THEN i
             ELSE FindOtherwiseFrom(i + 1, d2, end_if)

(***************************************************************************)
(* The statement dispatcher: which handler of exec_line takes a line.      *)
(* tok[k] of the C code is T(tok, k).                                      *)
(***************************************************************************)
T(tok, k) == tok[k + 1]

Form(line, tok) ==
    LET tc == Len(tok)
        t(k) == T(tok, k)
    IN  IF line = "" \/ startswith(line, "#") \/ startswith(line, "//") THEN "skip"
        ELSE IF tc = 0 THEN "skip"
        ELSE IF t(0) = "set" /\ tc >= 4 /\ t(2) = "to" THEN "set"
        ELSE IF t(0) = "add" /\ tc >= 5 /\ t(2) = "and" /\ t(4) = "into" /\ tc >= 6
        THEN "add"
        ELSE IF t(0) = "subtract" /\ tc >= 6 /\ t(2) = "from" /\ t(4) = "into"
        THEN "subtract"
        ELSE IF t(0) = "multiply" /\ tc >= 6 /\ t(2) = "by" /\ t(4) = "into"
        THEN "multiply"
        ELSE IF t(0) = "divide" /\ tc >= 6 /\ t(2) = "by" /\ t(4) = "into"
        THEN "divide"
        ELSE IF t(0) = "increment" /\ tc >= 2 THEN "increment"
        ELSE IF t(0) = "decrement" /\ tc >= 2 THEN "decrement"
        ELSE IF t(0) = "print" THEN "print"
        ELSE IF t(0) = "say" THEN "say"
        ELSE IF t(0) = "ask" /\ tc >= 4 THEN "ask"
        ELSE IF t(0) = "if" THEN "if"
        ELSE IF t(0) = "while" THEN "while"
        ELSE IF t(0) = "repeat" /\ tc >= 3 /\ t(2) = "times" THEN "repeat"
        ELSE IF t(0) = "for" /\ tc >= 6 /\ t(2) = "from" /\ t(4) = "to" THEN "for"
        ELSE IF t(0) = "define" /\ tc >= 3 THEN "define"
        ELSE IF t(0) = "call" /\ tc >= 2 THEN "call"
        ELSE IF t(0) = "return" /\ tc >= 2 THEN "return"
        ELSE IF t(0) = "push" /\ tc >= 4 /\ t(2) = "onto" /\ t(3) = "stack"
        THEN "push"
        ELSE IF t(0) = "pop" /\ tc >= 5 /\ t(1) = "from" /\ t(2) = "stack"
                /\ t(3) = "into"
        THEN "pop"
        ELSE IF t(0) = "store" /\ tc >= 5 /\ t(2) = "at" /\ t(3) = "address"
        THEN "store"
        ELSE IF t(0) = "load" /\ tc >= 6 /\ t(1) = "from" /\ t(2) = "address"
                /\ t(4) = "into"
        THEN "load"
        ELSE IF t(0) = "create" /\ tc >= 3 /\ t(1) = "array" THEN "create"
        ELSE IF t(0) = "append" /\ tc >= 5 /\ t(2) = "to" /\ t(3) = "array"
        THEN "append"
        ELSE IF t(0) = "get" /\ tc >= 7 /\ t(1) = "element" /\ t(3) = "of"
                /\ t(4) = "array" /\ t(6) = "into"
        THEN "get_element"
        ELSE IF t(0) = "set" /\ tc >= 7 /\ t(1) = "element" /\ t(3) = "of"
                /\ t(4) = "array" /\ t(6) = "to"
        THEN "set_element"
        ELSE IF t(0) = "size" /\ tc >= 5 /\ t(1) = "of" /\ t(2) = "array"
                /\ t(4) = "into"
        THEN "size"
        ELSE IF t(0) = "square" /\ tc >= 6 /\ t(1) = "root" /\ t(2) = "of"
                /\ t(4) = "into"
        THEN "square_root"
        ELSE IF t(0) = "absolute" /\ tc >= 6 /\ t(1) = "value" /\ t(2) = "of"
                /\ t(4) = "into"
        THEN "absolute"
        ELSE IF t(0) = "length" /\ tc >= 5 /\ t(1) = "of" /\ t(3) = "into"
        THEN "length"
        ELSE IF t(0) = "convert" /\ tc >= 4 /\ t(2) = "to" /\ t(3) = "number"
        THEN "convert_number"
        ELSE IF t(0) = "convert" /\ tc >= 4 /\ t(2) = "to" /\ t(3) = "string"
        THEN "convert_string"
        ELSE IF t(0) = "stop" \/ t(0) = "exit" THEN "stop"
        ELSE IF t(0) = "otherwise" \/ startswith(t(0), "end") THEN "noop"
        ELSE "unknown"

(***************************************************************************)
(* The executor.  A frame is one active call of execute(start, end_excl)   *)
(* together with the locals of the exec_line call that made it: idx is     *)
(* that statement's line, ret the value that exec_line call returns.       *)
(***************************************************************************)
MkFrame(kind, start, end_excl, idx, ret) ==
    [kind |-> kind, i |-> start, end_excl |-> end_excl, idx |-> idx, ret |-> ret,
     n |-> 0, k |-> 0, d |-> <<0, 1>>, to |-> <<0, 1>>, step |-> <<0, 1>>,
     name |-> "", cond |-> ""]

Top == frames[Len(frames)]
CurIdx == Top.i
CurLine == trim(Line(CurIdx))
Tok == tokenize(CurLine, MAX_TOK)
tc == Len(Tok)
CurForm == Form(CurLine, Tok)

\* the loop condition of execute()
InRange(f) == f.i < f.end_excl /\ f.i < line_count

\* exec_line(CurIdx) is the next thing to happen
AtLine == phase = "run" /\ InRange(Top)

\* the innermost execute() has left its loop
AtEnd == phase = "run" /\ ~InRange(Top)

Diag(kind, n, text) == [kind |-> kind, line |-> n, text |-> text]

(***************************************************************************)
(* Bounds of the model.                                                    *)
(***************************************************************************)
\* the history counter hits[] stops counting here
MaxHits == 600

(***************************************************************************)
(* Steps shared by the handlers.                                           *)
(***************************************************************************)
Hit == hits' = [hits EXCEPT ![CurIdx] = IF @ < MaxHits THEN @ + 1 ELSE @]

\* exec_line returns next to the execute() loop that called it
Return(next) ==
    /\ frames' = [frames EXCEPT ![Len(frames)].i = next]
    /\ Hit

\* exec_line calls execute() for a nested range
Enter(f) ==
    /\ frames' = Append(frames, f)
    /\ Hit

\* exit(1) after a message on stderr
Fatal(msg) ==
    /\ phase' = "exit"
    /\ status' = 1
    /\ err' = Append(err, Diag("fatal", CurIdx + 1, msg))
    /\ Hit
    /\ UNCHANGED <<lines, vars, arrays, funcs, func_count, mem, data_stack,
                   stack_top, frames, scan, out, oob>>

\* a handler whose whole effect is get_or_create_var(name) and a write to
\* the variable table
Assign(form, name, newvars) ==
    /\ AtLine
    /\ CurForm = form
    /\ IF VarTableFull(vars, name) THEN Fatal("Error: too many variables")
       ELSE /\ vars' = newvars
            /\ Return(CurIdx + 1)
            /\ UNCHANGED <<lines, arrays, funcs, func_count, mem, data_stack,
                           stack_top, phase, scan, status, out, err, oob>>

(***************************************************************************)
(* Blank lines, comments, `otherwise` and `end ...` lines.                 *)
(***************************************************************************)
SkipLine ==
    /\ AtLine
    /\ CurForm = "skip"
    /\ Return(CurIdx + 1)
    /\ UNCHANGED <<lines, vars, arrays, funcs, func_count, mem, data_stack,
                   stack_top, phase, scan, status, out, err, oob>>

ExecNoop ==
    /\ AtLine
    /\ CurForm = "noop"
    /\ Return(CurIdx + 1)
    /\ UNCHANGED <<lines, vars, arrays, funcs, func_count, mem, data_stack,
                   stack_top, phase, scan, status, out, err, oob>>

ExecUnknown ==
    /\ AtLine
    /\ CurForm = "unknown"
    /\ err' = Append(err, Diag("unknown", CurIdx + 1, CurLine))
    /\ Return(CurIdx + 1)
    /\ UNCHANGED <<lines, vars, arrays, funcs, func_count, mem, data_stack,
                   stack_top, phase, scan, status, out, oob>>

(***************************************************************************)
(* Assignment and arithmetic.                                              *)
(***************************************************************************)
\* the value `set` stores: val is tok[3] resolved, a, b and c the numeric
\* projections of tok[3], tok[5] and tok[6]
SetApply(vs, tok, n, val, a, b, c) ==
    IF n > 4
    THEN IF T(tok, 4) = "plus" /\ n >= 6
         THEN [val EXCEPT !.type = TYPE_NUM, !.num = RAdd(a, b)]
         ELSE IF T(tok, 4) = "minus" /\ n >= 6
         THEN [val EXCEPT !.type = TYPE_NUM, !.num = RSub(a, b)]
         ELSE IF T(tok, 4) = "times" /\ n >= 6
         THEN [val EXCEPT !.type = TYPE_NUM, !.num = RMul(a, b)]
         ELSE IF T(tok, 4) = "divided" /\ n >= 7 /\ T(tok, 5) = "by"
         THEN [val EXCEPT !.type = TYPE_NUM,
                          !.num = IF c # <<0, 1>> THEN RDiv(a, c) ELSE <<0, 1>>]
         ELSE IF T(tok, 4) = "modulo" /\ n >= 6
         THEN [val EXCEPT !.type = TYPE_NUM,
                          !.num = IF Trunc(b) # 0 THEN Num(CRem(Trunc(a), Trunc(b)))
                                  ELSE <<0, 1>>]
         ELSE IF T(tok, 4) = "power" /\ n >= 6
         THEN [val EXCEPT !.type = TYPE_NUM, !.num = pow(a, b)]
         ELSE IF T(tok, 4) = "concatenated" /\ n >= 7 /\ T(tok, 5) = "with"
         THEN [val EXCEPT !.type = TYPE_STR,
                          !.str = strncpy(StrOf(val) \o resolve_str(vs, T(tok, 6)),
                                          STR_SIZE - 1)]
         ELSE val
    ELSE val

\* computed after the target variable exists
SetExpr(vs, tok) ==
    SetApply(vs, tok, Len(tok), resolve(vs, T(tok, 3)),
             resolve_num(vs, T(tok, 3)), resolve_num(vs, T(tok, 5)),
             resolve_num(vs, T(tok, 6)))

ExecSet ==
    Assign("set", T(Tok, 1),
           LET vs == get_or_create_var(vars, T(Tok, 1))
           IN  SetVal(vs, T(Tok, 1), SetExpr(vs, Tok)))

\* the result variable exists and has been given the Number type, keeping
\* the num it had, before the operands are resolved
AsNumber(vs, name) == [get_or_create_var(vs, name) EXCEPT ![name].type = TYPE_NUM]

ExecAdd ==
    Assign("add", T(Tok, 5),
           LET vs == AsNumber(vars, T(Tok, 5))
           IN  SetNum(vs, T(Tok, 5),
                      RAdd(resolve_num(vs, T(Tok, 1)), resolve_num(vs, T(Tok, 3)))))

ExecSubtract ==
    Assign("subtract", T(Tok, 5),
           LET vs == AsNumber(vars, T(Tok, 5))
           IN  SetNum(vs, T(Tok, 5),
                      RSub(resolve_num(vs, T(Tok, 3)), resolve_num(vs, T(Tok, 1)))))

ExecMultiply ==
    Assign("multiply", T(Tok, 5),
           LET vs == AsNumber(vars, T(Tok, 5))
           IN  SetNum(vs, T(Tok, 5),
                      RMul(resolve_num(vs, T(Tok, 1)), resolve_num(vs, T(Tok, 3)))))

\* divide misread as leaving the result alone when the divisor is 0
DivideSkipsOnZero ==
    Assign("divide", T(Tok, 5),
           LET vs == get_or_create_var(vars, T(Tok, 5))
               d == resolve_num(vs, T(Tok, 3))
           IN  IF d # <<0, 1>>
               THEN SetNum(vs, T(Tok, 5),
                           RDiv(resolve_num(AsNumber(vars, T(Tok, 5)), T(Tok, 1)), d))
               ELSE vs)

\* the divisor is resolved before the result variable is typed, the
\* dividend after
ExecDivide ==
    Assign("divide", T(Tok, 5),
           LET vs == get_or_create_var(vars, T(Tok, 5))
               d == resolve_num(vs, T(Tok, 3))
           IN  SetNum(vs, T(Tok, 5),
                      IF d # <<0, 1>>
                      THEN RDiv(resolve_num(AsNumber(vars, T(Tok, 5)), T(Tok, 1)), d)
                      ELSE <<0, 1>>))

\* the step of increment/decrement: tok[3] after `by`, else 1
StepBy(vs, tok) ==
    IF Len(tok) >= 4 /\ T(tok, 2) = "by" THEN resolve_num(vs, T(tok, 3))
    ELSE <<1, 1>>

ExecIncrement ==
    Assign("increment", T(Tok, 1),
           LET vs == get_or_create_var(vars, T(Tok, 1))
           IN  SetNum(vs, T(Tok, 1), RAdd(vs[T(Tok, 1)].num, StepBy(vs, Tok))))

ExecDecrement ==
    Assign("decrement", T(Tok, 1),
           LET vs == get_or_create_var(vars, T(Tok, 1))
           IN  SetNum(vs, T(Tok, 1), RSub(vs[T(Tok, 1)].num, StepBy(vs, Tok))))

ExecReturn ==
    Assign("return", "return",
           LET vs == get_or_create_var(vars, "return")
           IN  SetVal(vs, "return", resolve(vs, T(Tok, 1))))

ExecSquareRoot ==
    Assign("square_root", T(Tok, 5),
           LET vs == AsNumber(vars, T(Tok, 5))
           IN  SetNum(vs, T(Tok, 5), sqrt(resolve_num(vs, T(Tok, 3)))))

ExecAbsolute ==
    Assign("absolute", T(Tok, 5),
           LET vs == AsNumber(vars, T(Tok, 5))
           IN  SetNum(vs, T(Tok, 5), fabs(resolve_num(vs, T(Tok, 3)))))

\* the text length is taken before the result variable is created
ExecLength ==
    Assign("length", T(Tok, 4),
           LET n == Len(resolve_str(vars, T(Tok, 2)))
               vs == get_or_create_var(vars, T(Tok, 4))
           IN  SetNum(vs, T(Tok, 4), Num(n)))

ExecConvertNumber ==
    Assign("convert_number", T(Tok, 1),
           LET vs == get_or_create_var(vars, T(Tok, 1))
               v == vs[T(Tok, 1)]
           IN  IF v.type = TYPE_STR
               THEN SetNum(vs, T(Tok, 1), atof(v.str))
               ELSE vs)

ExecConvertString ==
    Assign("convert_string", T(Tok, 1),
           LET vs == get_or_create_var(vars, T(Tok, 1))
               v == vs[T(Tok, 1)]
           IN  IF v.type = TYPE_NUM
               THEN [vs EXCEPT ![T(Tok, 1)].str = strncpy(FormatG(v.num), STR_SIZE - 1),
                               ![T(Tok, 1)].type = TYPE_STR]
               ELSE vs)

(***************************************************************************)
(* Output and input.                                                       *)
(***************************************************************************)
RECURSIVE PrintText(_, _, _, _)
\* print: the resolved tokens from index i on, `and` skipped, one space
\* between two of them
PrintText(vs, tok, i, first) ==
    IF i >= Len(tok) THEN ""
    ELSE IF T(tok, i) = "and" THEN PrintText(vs, tok, i + 1, first)
    ELSE (IF first THEN "" ELSE " ") \o resolve_str(vs, T(tok, i))
             \o PrintText(vs, tok, i + 1, FALSE)

RECURSIVE SayText(_, _, _)
\* say: every resolved token is followed by a space
SayText(vs, tok, i) ==
    IF i >= Len(tok) THEN ""
    ELSE IF T(tok, i) = "and" THEN SayText(vs, tok, i + 1)
    ELSE resolve_str(vs, T(tok, i)) \o " " \o SayText(vs, tok, i + 1)

ExecPrint ==
    /\ AtLine
    /\ CurForm = "print"
    /\ out' = Append(out, PrintText(vars, Tok, 1, TRUE) \o "\n")
    /\ Return(CurIdx + 1)
    /\ UNCHANGED <<lines, vars, arrays, funcs, func_count, mem, data_stack,
                   stack_top, phase, scan, status, err, oob>>

ExecSay ==
    /\ AtLine
    /\ CurForm = "say"
    /\ out' = Append(out, SayText(vars, Tok, 1) \o "\n")
    /\ Return(CurIdx + 1)
    /\ UNCHANGED <<lines, vars, arrays, funcs, func_count, mem, data_stack,
                   stack_top, phase, scan, status, err, oob>>

\* what fgets can deliver: end of input, or one line without its newline
StdinInputs ==
    {[eof |-> TRUE, text |-> ""]}
        \cup {[eof |-> FALSE, text |-> t] : t \in {"7", "bob", ""}}

\* the variable `ask` stores into, after the line was read
AskStore(vs, name, input) ==
    LET d == strtod(input)
    IN  IF d.end = Len(input) + 1 /\ d.end # 1
        THEN SetNum(vs, name, d.val)
        ELSE [vs EXCEPT ![name].type = TYPE_STR,
                        ![name].str = strncpy(input, STR_SIZE - 1)]

ExecAsk ==
    /\ AtLine
    /\ CurForm = "ask"
    /\ \E inp \in StdinInputs :
          LET into_idx == IndexOf(Tok, "into", 1)
              asks == into_idx > 0 /\ into_idx + 1 < tc
              name == T(Tok, into_idx + 1)
              full == asks /\ ~inp.eof /\ VarTableFull(vars, name)
          IN  /\ out' = IF asks THEN Append(out, resolve_str(vars, T(Tok, 1)) \o " ")
                        ELSE out
              /\ vars' = IF asks /\ ~inp.eof /\ ~full
                         THEN AskStore(get_or_create_var(vars, name), name, inp.text)
                         ELSE vars
              /\ phase' = IF full THEN "exit" ELSE phase
              /\ status' = IF full THEN 1 ELSE status
              /\ err' = IF full
                        THEN Append(err, Diag("fatal", CurIdx + 1,
                                              "Error: too many variables"))
                        ELSE err
              /\ IF full THEN Hit /\ UNCHANGED frames ELSE Return(CurIdx + 1)
    /\ UNCHANGED <<lines, arrays, funcs, func_count, mem, data_stack, stack_top,
                   scan, oob>>

(***************************************************************************)
(* The data stack and the flat memory.                                     *)
(***************************************************************************)
\* push with the capacity test off by one
PushBoundOffByOne ==
    /\ AtLine
    /\ CurForm = "push"
    /\ IF stack_top <= MAX_STACK
       THEN /\ data_stack' = Store(data_stack, stack_top, resolve_num(vars, T(Tok, 1)))
            /\ stack_top' = stack_top + 1
       ELSE UNCHANGED <<data_stack, stack_top>>
    /\ Return(CurIdx + 1)
    /\ UNCHANGED <<lines, vars, arrays, funcs, func_count, mem, phase, scan,
                   status, out, err, oob>>

ExecPush ==
    /\ AtLine
    /\ CurForm = "push"
    /\ IF stack_top < MAX_STACK
       THEN /\ data_stack' = Store(data_stack, stack_top, resolve_num(vars, T(Tok, 1)))
            /\ stack_top' = stack_top + 1
       ELSE UNCHANGED <<data_stack, stack_top>>
    /\ Return(CurIdx + 1)
    /\ UNCHANGED <<lines, vars, arrays, funcs, func_count, mem, phase, scan,
                   status, out, err, oob>>

\* pop misread as taking the oldest entry
PopOldest(st, top) == IF top > 0 THEN Cell(st, 0) ELSE <<0, 1>>

\* the value pop stores: data_stack[--stack_top], or 0 on an empty stack
PopValue(st, top) == IF top > 0 THEN Cell(st, top - 1) ELSE <<0, 1>>

ExecPop ==
    /\ AtLine
    /\ CurForm = "pop"
    /\ IF VarTableFull(vars, T(Tok, 4)) THEN Fatal("Error: too many variables")
       ELSE /\ vars' = SetNum(get_or_create_var(vars, T(Tok, 4)), T(Tok, 4),
                              PopValue(data_stack, stack_top))
            /\ stack_top' = IF stack_top > 0 THEN stack_top - 1 ELSE stack_top
            /\ Return(CurIdx + 1)
            /\ UNCHANGED <<lines, arrays, funcs, func_count, mem, data_stack,
                           phase, scan, status, out, err, oob>>

\* store with the upper bound of the address test off by one
StoreBoundOffByOne ==
    /\ AtLine
    /\ CurForm = "store"
    /\ LET addr == Trunc(resolve_num(vars, T(Tok, 4)))
       IN  mem' = IF addr >= 0 /\ addr <= MAX_MEM
                  THEN Store(mem, addr, resolve_num(vars, T(Tok, 1)))
                  ELSE mem
    /\ Return(CurIdx + 1)
    /\ UNCHANGED <<lines, vars, arrays, funcs, func_count, data_stack, stack_top,
                   phase, scan, status, out, err, oob>>

ExecStore ==
    /\ AtLine
    /\ CurForm = "store"
    /\ LET addr == Trunc(resolve_num(vars, T(Tok, 4)))
       IN  mem' = IF addr >= 0 /\ addr < MAX_MEM
                  THEN Store(mem, addr, resolve_num(vars, T(Tok, 1)))
                  ELSE mem
    /\ Return(CurIdx + 1)
    /\ UNCHANGED <<lines, vars, arrays, funcs, func_count, data_stack, stack_top,
                   phase, scan, status, out, err, oob>>

ExecLoad ==
    Assign("load", T(Tok, 5),
           LET addr == Trunc(resolve_num(vars, T(Tok, 3)))
               vs == get_or_create_var(vars, T(Tok, 5))
           IN  SetNum(vs, T(Tok, 5),
                      IF addr >= 0 /\ addr < MAX_MEM THEN Cell(mem, addr)
                      ELSE <<0, 1>>))

(***************************************************************************)
(* Arrays.                                                                 *)
(***************************************************************************)
\* what tok[k] can hold when the line has k tokens or fewer: the array is an
\* uninitialised local, so it is empty or a token an earlier call left there
Uninit(k) ==
    {""} \cup {T(tokenize(trim(lines[j]), MAX_TOK), k) :
                  j \in {m \in 1..Len(lines) :
                            Len(tokenize(trim(lines[m]), MAX_TOK)) > k}}

\* tok[k] as the handler reads it, g being what an unwritten slot holds
TokOr(tok, k, g) == IF k < Len(tok) THEN T(tok, k) ELSE g

ExecCreateArray ==
    /\ AtLine
    /\ CurForm = "create"
    /\ IF ArrayTableFull(arrays, T(Tok, 2)) THEN Fatal("Error: too many arrays")
       ELSE /\ arrays' = get_or_create_array(arrays, T(Tok, 2))
            /\ Return(CurIdx + 1)
            /\ UNCHANGED <<lines, vars, funcs, func_count, mem, data_stack,
                           stack_top, phase, scan, status, out, err, oob>>

\* the array after `append`: nothing is stored once size is MAX_ARRAY_SIZE
AppendTo(a, val) ==
    IF a.size < MAX_ARRAY_SIZE
    THEN [size |-> a.size + 1, data |-> Store(a.data, a.size, val)]
    ELSE a

ExecAppend ==
    /\ AtLine
    /\ CurForm = "append"
    /\ IF ArrayTableFull(arrays, T(Tok, 4)) THEN Fatal("Error: too many arrays")
       ELSE /\ arrays' = LET as == get_or_create_array(arrays, T(Tok, 4))
                         IN  [as EXCEPT ![T(Tok, 4)] =
                                 AppendTo(@, resolve(vars, T(Tok, 1)))]
            /\ Return(CurIdx + 1)
            /\ UNCHANGED <<lines, vars, funcs, func_count, mem, data_stack,
                           stack_top, phase, scan, status, out, err, oob>>

\* the value `get element` stores
GetElement(as, name, i) ==
    IF find_array(as, name) /\ i >= 0 /\ i < as[name].size
    THEN ArrayData(as[name], i)
    ELSE ZeroValue

ExecGetElement ==
    /\ AtLine
    /\ CurForm = "get_element"
    /\ \E g \in Uninit(7) :
          LET name == TokOr(Tok, 7, g)
              i == Trunc(resolve_num(vars, T(Tok, 2)))
              hit == find_array(arrays, T(Tok, 5)) /\ i >= 0
                         /\ i < arrays[T(Tok, 5)].size
              vs == get_or_create_var(vars, name)
          IN  IF VarTableFull(vars, name) THEN Fatal("Error: too many variables")
              ELSE /\ vars' = IF hit THEN SetVal(vs, name, GetElement(arrays, T(Tok, 5), i))
                              ELSE SetNum(vs, name, <<0, 1>>)
                   /\ Return(CurIdx + 1)
                   /\ UNCHANGED <<lines, arrays, funcs, func_count, mem, data_stack,
                                  stack_top, phase, scan, status, out, err, oob>>

\* set element misread as never growing the array
SetElementKeepsSize(a, i, val) ==
    IF i >= 0 /\ i < MAX_ARRAY_SIZE
    THEN [size |-> a.size, data |-> Store(a.data, i, val)]
    ELSE a

\* the array after `set element i ... to val`
SetElement(a, i, val) ==
    IF i >= 0 /\ i < MAX_ARRAY_SIZE
    THEN [size |-> IF i >= a.size THEN i + 1 ELSE a.size,
          data |-> Store(a.data, i, val)]
    ELSE a

ExecSetElement ==
    /\ AtLine
    /\ CurForm = "set_element"
    /\ \E g \in Uninit(7) :
          LET i == Trunc(resolve_num(vars, T(Tok, 2)))
              as == get_or_create_array(arrays, T(Tok, 5))
          IN  IF ArrayTableFull(arrays, T(Tok, 5)) THEN Fatal("Error: too many arrays")
              ELSE /\ arrays' = [as EXCEPT ![T(Tok, 5)] =
                                    SetElement(@, i, resolve(vars, TokOr(Tok, 7, g)))]
                   /\ Return(CurIdx + 1)
                   /\ UNCHANGED <<lines, vars, funcs, func_count, mem, data_stack,
                                  stack_top, phase, scan, status, out, err, oob>>

ExecSizeOf ==
    /\ AtLine
    /\ CurForm = "size"
    /\ \E g \in Uninit(5) :
          LET name == TokOr(Tok, 5, g)
              vs == get_or_create_var(vars, name)
          IN  IF VarTableFull(vars, name) THEN Fatal("Error: too many variables")
              ELSE /\ vars' = SetNum(vs, name,
                                     IF find_array(arrays, T(Tok, 3))
                                     THEN Num(arrays[T(Tok, 3)].size) ELSE <<0, 1>>)
                   /\ Return(CurIdx + 1)
                   /\ UNCHANGED <<lines, arrays, funcs, func_count, mem, data_stack,
                                  stack_top, phase, scan, status, out, err, oob>>

(***************************************************************************)
(* Blocks: if, while, repeat, for.                                         *)
(***************************************************************************)
\* the innermost execute() returns into the exec_line that called it, and
\* that exec_line returns next to its own execute() loop
Leave(next) ==
    frames' = [SubSeq(frames, 1, Len(frames) - 1)
                  EXCEPT ![Len(frames) - 1].i = next]

\* the innermost execute() is called again for the same range
Again(f) == frames' = [frames EXCEPT ![Len(frames)] = f]

ExecIf ==
    /\ AtLine
    /\ CurForm = "if"
    /\ LET then_idx == IndexOf(Tok, "then", 1)
           cond == JoinFrom(Tok, 1, then_idx)
           end_if == find_end(CurIdx, "end if")
           otherwise == FindOtherwiseFrom(CurIdx + 1, 1, end_if)
       IN  IF then_idx < 0 THEN Return(CurIdx + 1)
           ELSE IF eval_condition(vars, cond)
           THEN Enter(MkFrame("if", CurIdx + 1,
                              IF otherwise >= 0 THEN otherwise ELSE end_if,
                              CurIdx, end_if + 1))
           ELSE IF otherwise >= 0
           THEN Enter(MkFrame("if", otherwise + 1, end_if, CurIdx, end_if + 1))
           ELSE Return(end_if + 1)
    /\ UNCHANGED <<lines, vars, arrays, funcs, func_count, mem, data_stack,
                   stack_top, phase, scan, status, out, err, oob>>

ReturnIf ==
    /\ AtEnd
    /\ Top.kind = "if"
    /\ Leave(Top.ret)
    /\ UNCHANGED <<lines, vars, arrays, funcs, func_count, mem, data_stack,
                   stack_top, phase, scan, status, out, err, hits, oob>>

ExecWhile ==
    /\ AtLine
    /\ CurForm = "while"
    /\ LET then_idx == IndexOf(Tok, "then", 1)
           cond == JoinFrom(Tok, 1, then_idx)
           end_while == find_end(CurIdx, "end while")
       IN  IF then_idx < 0 THEN Return(CurIdx + 1)
           ELSE IF eval_condition(vars, cond)
           THEN Enter([MkFrame("while", CurIdx + 1, end_while, CurIdx, end_while + 1)
                          EXCEPT !.cond = cond])
           ELSE Return(end_while + 1)
    /\ UNCHANGED <<lines, vars, arrays, funcs, func_count, mem, data_stack,
                   stack_top, phase, scan, status, out, err, oob>>

\* the body has run: the condition is evaluated again
WhileNext ==
    /\ AtEnd
    /\ Top.kind = "while"
    /\ IF eval_condition(vars, Top.cond)
       THEN Again([Top EXCEPT !.i = Top.idx + 1])
       ELSE Leave(Top.ret)
    /\ UNCHANGED <<lines, vars, arrays, funcs, func_count, mem, data_stack,
                   stack_top, phase, scan, status, out, err, hits, oob>>

ExecRepeat ==
    /\ AtLine
    /\ CurForm = "repeat"
    /\ LET n == Trunc(resolve_num(vars, T(Tok, 1)))
           end_rep == find_end(CurIdx, "end repeat")
       IN  IF 0 < n
           THEN Enter([MkFrame("repeat", CurIdx + 1, end_rep, CurIdx, end_rep + 1)
                          EXCEPT !.n = n, !.k = 0])
           ELSE Return(end_rep + 1)
    /\ UNCHANGED <<lines, vars, arrays, funcs, func_count, mem, data_stack,
                   stack_top, phase, scan, status, out, err, oob>>

\* the body has run: i++ and the test i < n
RepeatNext ==
    /\ AtEnd
    /\ Top.kind = "repeat"
    /\ IF Top.k + 1 < Top.n
       THEN Again([Top EXCEPT !.i = Top.idx + 1, !.k = Top.k + 1])
       ELSE Leave(Top.ret)
    /\ UNCHANGED <<lines, vars, arrays, funcs, func_count, mem, data_stack,
                   stack_top, phase, scan, status, out, err, hits, oob>>

\* the loop test of `for` misread as excluding the bound
ForStopsBeforeBound(d, to, step) ==
    IF RGt(step, <<0, 1>>) THEN RLt(d, to) ELSE RGt(d, to)

\* the loop test of `for`: d <= to for a positive step, d >= to otherwise
ForContinues(d, to, step) ==
    IF RGt(step, <<0, 1>>) THEN RLe(d, to) ELSE RGe(d, to)

ExecFor ==
    /\ AtLine
    /\ CurForm = "for"
    /\ LET varname == T(Tok, 1)
           from == resolve_num(vars, T(Tok, 3))
           to == resolve_num(vars, T(Tok, 5))
           step == IF tc >= 9 /\ T(Tok, 6) = "step" THEN resolve_num(vars, T(Tok, 7))
                   ELSE <<1, 1>>
           end_for == find_end(CurIdx, "end for")
           vs == [get_or_create_var(vars, varname) EXCEPT ![varname].type = TYPE_NUM]
       IN  IF VarTableFull(vars, varname) THEN Fatal("Error: too many variables")
           ELSE /\ IF ForContinues(from, to, step)
                   THEN /\ vars' = [vs EXCEPT ![varname].num = from]
                        /\ Enter([MkFrame("for", CurIdx + 1, end_for, CurIdx, end_for + 1)
                                     EXCEPT !.d = from, !.to = to, !.step = step,
                                            !.name = varname])
                   ELSE /\ vars' = vs
                        /\ Return(end_for + 1)
                /\ UNCHANGED <<lines, arrays, funcs, func_count, mem, data_stack,
                               stack_top, phase, scan, status, out, err, oob>>

\* the body has run: d += step, the test, and v->val.num = d
ForNext ==
    /\ AtEnd
    /\ Top.kind = "for"
    /\ LET d == RAdd(Top.d, Top.step)
       IN  IF ForContinues(d, Top.to, Top.step)
           THEN /\ vars' = [vars EXCEPT ![Top.name].num = d]
                /\ Again([Top EXCEPT !.i = Top.idx + 1, !.d = d])
           ELSE /\ vars' = vars
                /\ Leave(Top.ret)
    /\ UNCHANGED <<lines, arrays, funcs, func_count, mem, data_stack, stack_top,
                   phase, scan, status, out, err, hits, oob>>

(***************************************************************************)
(* Functions: define, call, and the pre-pass.                              *)
(***************************************************************************)
RECURSIVE ParamsFrom(_, _, _, _)
\* for (i = from; i < as_idx && param_count < 8; i++) params[param_count++] = tok[i]
ParamsFrom(tok, i, as_idx, count) ==
    IF i < as_idx /\ count < MAX_PARAMS
    THEN <<strncpy(T(tok, i), MAX_NAME - 1)>> \o ParamsFrom(tok, i + 1, as_idx, count + 1)
    ELSE << >>

\* the FuncDef both exec_line and collect_funcs write for a define line
MkFuncDef(tok, idx, end_def) ==
    LET as_idx == IndexOf(tok, "as", 2)
        param_start == IF Len(tok) > 2 /\ T(tok, 2) = "with" THEN 3 ELSE 2
    IN  [name |-> strncpy(T(tok, 1), MAX_NAME - 1),
         start_line |-> idx + 1,
         end_line |-> end_def,
         params |-> IF as_idx > 0 THEN ParamsFrom(tok, param_start, as_idx, 0)
                    ELSE << >>]

\* funcs[func_count++] = f : a write past the table is recorded in oob
AddFunc(f) ==
    /\ funcs' = IF func_count < MAX_FUNCS THEN Append(funcs, f) ELSE funcs
    /\ oob' = (oob \/ func_count >= MAX_FUNCS)
    /\ func_count' = func_count + 1

ExecDefine ==
    /\ AtLine
    /\ CurForm = "define"
    /\ LET end_def == find_end(CurIdx, "end define")
       IN  /\ AddFunc(MkFuncDef(Tok, CurIdx, end_def))
           /\ Return(end_def + 1)
    /\ UNCHANGED <<lines, vars, arrays, mem, data_stack, stack_top, phase, scan,
                   status, out, err>>

RECURSIVE FindFuncFrom(_, _, _)
\* the index (1-based) of the first entry named name, or 0
FindFuncFrom(fs, name, i) ==
    IF i > Len(fs) THEN 0
    ELSE IF fs[i].name = name THEN i
    ELSE FindFuncFrom(fs, name, i + 1)

RECURSIVE FindFuncDownFrom(_, _, _)
FindFuncDownFrom(fs, name, i) ==
    IF i < 1 THEN 0
    ELSE IF fs[i].name = name THEN i
    ELSE FindFuncDownFrom(fs, name, i - 1)

\* find_func misread as returning the latest entry of that name
FindFuncLatest(fs, name) == FindFuncDownFrom(fs, name, Len(fs))

find_func(fs, name) == FindFuncFrom(fs, name, 1)

RECURSIVE BindFrom(_, _, _, _, _)
\* the binding loop of call: parameter i is created and assigned before
\* argument i + 1 is resolved
BindFrom(vs, params, tok, arg_start, i) ==
    IF i < Len(params) /\ arg_start + i < Len(tok)
    THEN IF VarTableFull(vs, params[i + 1]) THEN [vs |-> vs, fatal |-> TRUE]
         ELSE LET v1 == get_or_create_var(vs, params[i + 1])
              IN  BindFrom(SetVal(v1, params[i + 1], resolve(v1, T(tok, arg_start + i))),
                           params, tok, arg_start, i + 1)
    ELSE [vs |-> vs, fatal |-> FALSE]

\* call misread as binding into a scope of its own
BindInOwnScope(vs, params, tok) == [vs |-> vs, fatal |-> FALSE]

BindParams(vs, params, tok) ==
    BindFrom(vs, params, tok,
             IF Len(tok) > 2 /\ T(tok, 2) = "with" THEN 3 ELSE 2, 0)

ExecCall ==
    /\ AtLine
    /\ CurForm = "call"
    /\ LET fi == find_func(funcs, T(Tok, 1))
           f == funcs[fi]
           b == BindParams(vars, f.params, Tok)
       IN  IF fi = 0
           THEN /\ err' = Append(err, Diag("undefined", CurIdx + 1, T(Tok, 1)))
                /\ Return(CurIdx + 1)
                /\ UNCHANGED <<vars, phase, status>>
           ELSE IF b.fatal
           THEN /\ vars' = b.vs
                /\ err' = Append(err, Diag("fatal", CurIdx + 1,
                                           "Error: too many variables"))
                /\ phase' = "exit"
                /\ status' = 1
                /\ Hit
                /\ UNCHANGED frames
           ELSE /\ vars' = b.vs
                /\ Enter(MkFrame("call", f.start_line, f.end_line, CurIdx, CurIdx + 1))
                /\ UNCHANGED <<err, phase, status>>
    /\ UNCHANGED <<lines, arrays, funcs, func_count, mem, data_stack, stack_top,
                   scan, out, oob>>

ReturnCall ==
    /\ AtEnd
    /\ Top.kind = "call"
    /\ Leave(Top.ret)
    /\ UNCHANGED <<lines, vars, arrays, funcs, func_count, mem, data_stack,
                   stack_top, phase, scan, status, out, err, hits, oob>>

\* one iteration of the loop of collect_funcs
CollectLine ==
    /\ phase = "collect"
    /\ scan < line_count
    /\ LET tok == tokenize(trim(Line(scan)), MAX_TOK)
           end_def == find_end(scan, "end define")
       IN  IF Len(tok) >= 3 /\ T(tok, 0) = "define"
           THEN /\ AddFunc(MkFuncDef(tok, scan, end_def))
                /\ scan' = end_def + 1
           ELSE /\ scan' = scan + 1
                /\ UNCHANGED <<funcs, func_count, oob>>
    /\ UNCHANGED <<lines, vars, arrays, mem, data_stack, stack_top, frames, phase,
                   status, out, err, hits>>

\* collect_funcs returns and main calls execute(0, line_count)
CollectDone ==
    /\ phase = "collect"
    /\ scan >= line_count
    /\ phase' = "run"
    /\ frames' = <<MkFrame("main", 0, line_count, -1, 0)>>
    /\ UNCHANGED <<lines, vars, arrays, funcs, func_count, mem, data_stack,
                   stack_top, scan, status, out, err, hits, oob>>

(***************************************************************************)
(* Termination.                                                            *)
(***************************************************************************)
\* stop misread as ending only the statement
StopOnlyReturns ==
    /\ AtLine
    /\ CurForm = "stop"
    /\ Return(CurIdx + 1)
    /\ UNCHANGED <<lines, vars, arrays, funcs, func_count, mem, data_stack,
                   stack_top, phase, scan, status, out, err, oob>>

\* stop / exit: exit(0) from wherever exec_line was called
ExecStop ==
    /\ AtLine
    /\ CurForm = "stop"
    /\ phase' = "exit"
    /\ status' = 0
    /\ Hit
    /\ UNCHANGED <<lines, vars, arrays, funcs, func_count, mem, data_stack,
                   stack_top, frames, scan, out, err, oob>>

\* execute(0, line_count) returns to main, which returns 0
MainDone ==
    /\ AtEnd
    /\ Top.kind = "main"
    /\ phase' = "done"
    /\ status' = 0
    /\ UNCHANGED <<lines, vars, arrays, funcs, func_count, mem, data_stack,
                   stack_top, frames, scan, out, err, hits, oob>>

(***************************************************************************)
(* Programs the interpreter is run on.                                     *)
(***************************************************************************)
\* one statement of every form
TourProgram ==
    << "# tour",
       "",
       "define twice with n as",
       "  multiply n by 2 into r",
       "  return r",
       "end define",
       "set x to 10",
       "set s to \"hi\" concatenated with x",
       "add x and 1 into y",
       "subtract 1 from y into y",
       "divide y by 4 into q",
       "increment x by 2",
       "decrement x",
       "call twice with x",
       "call nothing",
       "if return is greater than 20 then",
       "  print \"big\" and return",
       "otherwise",
       "  say \"small\" and q",
       "end if",
       "while x is greater than 9 then",
       "  decrement x",
       "end while",
       "repeat 2 times",
       "  push x onto stack",
       "end repeat",
       "for i from 1 to 2 then",
       "  pop from stack into p",
       "end for",
       "store 5 at address 3",
       "load from address 3 into m",
       "create array a",
       "append 4 to array a",
       "set element 2 of array a to 9",
       "get element 2 of array a into e",
       "size of array a into n",
       "square root of 16 into root",
       "absolute value of -3 into av",
       "length of s into len",
       "convert x to string",
       "convert x to number",
       "ask \"name?\" into who",
       "frobnicate x",
       "stop",
       "print \"unreachable\"" >>

\* a block of each kind, to be nested inside another block
InnerBlock(kind) ==
    IF kind = "for" THEN <<"  for i from 1 to 2 then", "    increment n", "  end for">>
    ELSE IF kind = "repeat" THEN <<"  repeat 2 times", "    increment n", "  end repeat">>
    ELSE IF kind = "while"
    THEN <<"  while n is less than 2 then", "    increment n", "  end while">>
    ELSE IF kind = "if" THEN <<"  if n is equal to 0 then", "    increment n", "  end if">>
    ELSE << >>

InnerKinds == {"none", "if", "while", "repeat", "for"}

\* an if block with a nested block in its then-branch, with or without an
\* otherwise branch
IfProgram(cond, kind, has_else) ==
    <<"if " \o cond \o " then">> \o InnerBlock(kind) \o <<"  increment t">>
    \o (IF has_else THEN <<"otherwise", "  increment e", "  say \"else\" and e">>
        ELSE << >>)
    \o <<"end if", "increment after">>

IfPrograms ==
    {IfProgram(cond, kind, has_else) :
        cond \in {"1 is equal to 1", "1 is equal to 2"},
        kind \in InnerKinds, has_else \in BOOLEAN}

\* number of push/pop statements in a stack program
MaxStackOps == 3

StackStatements ==
    {"push 1 onto stack", "push 2 onto stack", "pop from stack into v"}

StackPrograms == UNION {[1..n -> StackStatements] : n \in 1..MaxStackOps}

\* pushes made inside called functions, popped by the caller
StackCallProgram ==
    << "push 1 onto stack",
       "push 2 onto stack",
       "pop from stack into a",
       "pop from stack into b",
       "pop from stack into c",
       "define f with x as",
       "  push x onto stack",
       "  call g",
       "end define",
       "define g as",
       "  push 9 onto stack",
       "end define",
       "call f with 7",
       "pop from stack into p",
       "pop from stack into q",
       "pop from stack into r" >>

\* a call whose arguments name the function's own parameters
SwapProgram ==
    << "define f with a b as",
       "  set first to a",
       "  set second to b",
       "end define",
       "set a to 1",
       "set b to 2",
       "call f with b a",
       "call f with 5 \"five\"",
       "call f with 6" >>

\* a recursive function that rebinds and changes its parameter
DownProgram ==
    << "define down with n as",
       "  if n is greater than 0 then",
       "    subtract 1 from n into m",
       "    call down with m",
       "  end if",
       "  increment depth",
       "end define",
       "define bump with x as",
       "  increment x",
       "end define",
       "set n to 50",
       "set x to 1",
       "call down with 2",
       "call bump with 5" >>

\* define lines at top level, after their first call, twice under one name,
\* inside a function body, and inside a loop
DefineProgram ==
    << "call fwd",
       "define fwd as",
       "  print \"first\"",
       "end define",
       "define fwd as",
       "  print \"second\"",
       "end define",
       "call fwd",
       "define outer as",
       "  define inner as",
       "    print \"inner\"",
       "  end define",
       "end define",
       "call inner",
       "call outer",
       "call inner",
       "repeat 2 times",
       "  define looped as",
       "  end define",
       "end repeat" >>

\* the literals a for loop is run with
ForFrom == {"1", "3"}
ForTo == {"0", "3"}
ForStep == {"", "1", "2", "-1", "0.5"}

\* a for loop that records the values of v its body sees
ForProgram(a, b, s, writes) ==
    <<"create array seen",
      "for v from " \o a \o " to " \o b
         \o (IF s = "" THEN "" ELSE " step " \o s) \o " then",
      "  append v to array seen",
      "  add total and v into total">>
    \o (IF writes THEN <<"  set v to 100">> ELSE << >>)
    \o <<"end for">>

ForPrograms ==
    {ForProgram(a, b, s, writes) :
        a \in ForFrom, b \in ForTo, s \in ForStep, writes \in BOOLEAN}

\* a for loop whose body changes the variables its from, to and step name
ForEntryProgram ==
    << "create array seen",
       "set lo to 1",
       "set hi to 3",
       "set st to 1",
       "for v from lo to hi step st then",
       "  append v to array seen",
       "  set lo to 7",
       "  set hi to 0",
       "  set st to 5",
       "end for" >>

\* a repeat block whose body changes the variable its count names
RepeatProgram(count, kind) ==
    <<"set n to " \o count, "repeat n times">> \o InnerBlock(kind)
    \o <<"  increment c", "  set n to 5", "end repeat", "increment after">>

RepeatPrograms ==
    {RepeatProgram(count, kind) :
        count \in {"0", "-1", "2", "2.9"}, kind \in {"none", "if", "for"}}

\* stop / exit reached inside nested blocks of a called function
StopProgram(word) ==
    << "define halt with k as",
       "  repeat 2 times",
       "    while k is equal to 1 then",
       "      if k is equal to 1 then",
       "        push k onto stack",
       "        " \o word,
       "        set k to 2",
       "      end if",
       "    end while",
       "  end repeat",
       "end define",
       "for i from 1 to 2 then",
       "  call halt with i",
       "end for",
       "print \"unreachable\"" >>

StopPrograms == {StopProgram(word) : word \in {"stop", "exit"}}

\* the three statements that divide, with divisor token b
DivProgram(b) ==
    << "set zed to 0",
       "set q to 7",
       "divide 6 by " \o b \o " into q",
       "set r to 7",
       "set r to 6 divided by " \o b,
       "set m to 7",
       "set m to 6 modulo " \o b,
       "increment after" >>

Divisors == {"0", "0.0", "-0", "zed", "word", "\"text\"", "3"}

DivPrograms == {DivProgram(b) : b \in Divisors}

\* stores and loads at address n, next to a cell that is already written
MemProgram(n) ==
    << "load from address " \o n \o " into before",
       "store 5 at address 3",
       "store 6 at address " \o n,
       "load from address " \o n \o " into x",
       "load from address 3 into y",
       "store word at address 3",
       "load from address 3 into z",
       "load from address 4 into w" >>

Addresses == {"0", "3", "1023", "1024", "-1", "2000"}

MemPrograms == {MemProgram(n) : n \in Addresses}

\* number of array statements in an array program, before the probes
MaxArrayOps == 2

ArrayStatements ==
    {"create array a", "append 5 to array a", "set element 2 of array a to 7",
     "set element 0 of array a to \"t\""}

\* reads below, inside and beyond any size the statements above can reach
ArrayProbes ==
    << "get element -1 of array a into below",
       "get element 1 of array a into g1",
       "get element 3 of array a into g3",
       "get element 0 of array nope into unknown",
       "size of array a into n" >>

ArrayPrograms ==
    {ops \o ArrayProbes : ops \in UNION {[1..k -> ArrayStatements] : k \in 1..MaxArrayOps}}

\* an append to an array that is full
CapacityProgram ==
    << "set element 1023 of array a to 1",
       "size of array a into before",
       "append 5 to array a",
       "size of array a into n",
       "print \"still running\"" >>

\* a line that matches no statement form, between two well-formed lines
MalformedProgram(l) ==
    << "set x to 1",
       l,
       "print \"after\" x" >>

MalformedLines ==
    {"frobnicate x", "set x", "push", "if x is 1", "while x is 1"}

MalformedPrograms == {MalformedProgram(l) : l \in MalformedLines}

\* a / b is converted to text and back; orig keeps the value it had before
ConvertProgram(a, b) ==
    << "set n to " \o a \o " divided by " \o b,
       "set orig to n",
       "convert n to string",
       "set shown to n",
       "convert n to number" >>

ConvertNumerators == {"0", "1", "-7", "0.5", "123456", "1234567", "1e6"}
ConvertDenominators == {"1", "3", "8", "1000"}

\* conversions that have nothing to convert
ConvertIdleProgram(v) ==
    << "set n to " \o v,
       "convert n to number",
       "set t to \"" \o v \o "\"",
       "convert t to string",
       "convert fresh to number" >>

ConvertPrograms ==
    {ConvertProgram(a, b) : a \in ConvertNumerators, b \in ConvertDenominators}
        \cup {ConvertIdleProgram(v) : v \in {"2.5", "abc"}}

\* a whole if statement written on one line
OneLineIfProgram ==
    << "if 5 is greater than 3 then print \"yes\" otherwise print \"no\" end if" >>

\* variables named `7` and `word` exist when the token is resolved
ResolveProgram(token) ==
    << "set 7 to 9",
       "set word to 3",
       "set label to \"7\"",
       "set r to " \o token,
       "print " \o token >>

ResolveTokens ==
    {"\"7\"", "\"word\"", "\"\"", "7", "-2.5", "1e2", "word", "label", "other",
     "7up"}

ResolvePrograms == {ResolveProgram(token) : token \in ResolveTokens}

\* one comparison asked three ways: plainly, negated, and without `is`
CondProgram(a, b, tail) ==
    << "set a to " \o a,
       "set b to " \o b,
       "if a is " \o tail \o " then",
       "  set plain to 1",
       "end if",
       "if a is not " \o tail \o " then",
       "  set negated to 1",
       "end if",
       "if a " \o tail \o " then",
       "  set wordless to 1",
       "end if" >>

CondTails ==
    {"greater than or equal to b", "less than or equal to b", "greater than b",
     "less than b", "equal to b", "zero", "empty"}

CondLefts == {"0", "2", "\"\""}

CondRights == {"2", "3"}

CondPrograms ==
    {CondProgram(a, b, tail) : a \in CondLefts, b \in CondRights,
                               tail \in CondTails}

\* one push more than the stack holds, then two more, then a pop
FullStackProgram ==
    << "repeat 513 times",
       "  push 7 onto stack",
       "end repeat",
       "push 8 onto stack",
       "pop from stack into top",
       "pop from stack into next" >>

\* a string literal, closed or not, stored and printed
LiteralProgram(lit) ==
    << "set s to " \o lit,
       "print " \o lit >>

Literals == {"\"abc\"", "\"a b\"", "\"\"", "\"abc", "\"a b", "\""}

LiteralPrograms == {LiteralProgram(lit) : lit \in Literals}

\* array statements that end where their last operand should stand
ShortLineProgram ==
    << "set element 0 of array a to 42",
       "set element 1 of array a to z",
       "get element 0 of array a into",
       "size of array a into",
       "set element 2 of array a to",
       "print z" >>

\* a define line reached once by the pre-pass and 256 times by the loop
DefineLoopProgram ==
    << "repeat 256 times",
       "  define f as",
       "  end define",
       "end repeat" >>

\* v holds 5, becomes Text, and is then stepped; w is stepped by `add`
TextStepProgram(becomes, step) ==
    << "set v to 5",
       becomes,
       "set w to v",
       "add w and 2 into w",
       step >>

BecomesText ==
    {"convert v to string", "set v to v concatenated with \"x\"",
     "set v to \"abc\""}

TextSteps ==
    {"increment v", "increment v by 2", "decrement v", "decrement v by 2"}

TextStepPrograms ==
    {TextStepProgram(becomes, step) : becomes \in BecomesText, step \in TextSteps}

\* a for loop whose body changes its own loop variable
ForBodyProgram(write) ==
    << "create array seen",
       "for v from 1 to 3 then",
       "  append v to array seen",
       "  " \o write,
       "end for" >>

ForBodyWrites == {"set v to 100", "set v to \"x\"", "convert v to string"}

ForBodyPrograms == {ForBodyProgram(write) : write \in ForBodyWrites}

\* a for loop that does not move: from = to and the step is 0
ZeroStepProgram ==
    << "for v from 1 to 1 step 0 then",
       "  set n to v",
       "end for",
       "set after to 1" >>

Programs ==
    {TourProgram, StackCallProgram, SwapProgram, DownProgram, DefineProgram,
     ForEntryProgram, CapacityProgram,
     OneLineIfProgram, FullStackProgram, ShortLineProgram,
     DefineLoopProgram, ZeroStepProgram}
    \cup IfPrograms \cup StackPrograms \cup ForPrograms \cup RepeatPrograms
    \cup StopPrograms
    \cup ForBodyPrograms
    \cup TextStepPrograms
    \cup LiteralPrograms
    \cup CondPrograms
    \cup ResolvePrograms
    \cup ConvertPrograms
    \cup MalformedPrograms
    \cup ArrayPrograms
    \cup MemPrograms
    \cup DivPrograms

(***************************************************************************)
(* The state after main() has zeroed the tables and loaded the file.       *)
(***************************************************************************)
Boot(program) ==
    /\ lines = program
    /\ vars = [n \in {} |-> ZeroValue]
    /\ arrays = [n \in {} |-> ZeroValue]
    /\ funcs = << >>
    /\ func_count = 0
    /\ mem = [a \in {} |-> <<0, 1>>]
    /\ data_stack = [a \in {} |-> <<0, 1>>]
    /\ stack_top = 0
    /\ frames = << >>
    /\ phase = "collect"
    /\ scan = 0
    /\ status = 0
    /\ out = << >>
    /\ err = << >>
    /\ hits = [i \in 0..(Len(program) - 1) |-> 0]
    /\ oob = FALSE

Init == \E program \in Programs : Boot(program)

Next ==
    \/ CollectLine
    \/ CollectDone
    \/ SkipLine
    \/ ExecNoop
    \/ ExecUnknown
    \/ ExecSet
    \/ ExecAdd
    \/ ExecSubtract
    \/ ExecMultiply
    \/ ExecDivide
    \/ ExecIncrement
    \/ ExecDecrement
    \/ ExecPrint
    \/ ExecSay
    \/ ExecAsk
    \/ ExecIf
    \/ ReturnIf
    \/ ExecWhile
    \/ WhileNext
    \/ ExecRepeat
    \/ RepeatNext
    \/ ExecFor
    \/ ForNext
    \/ ExecDefine
    \/ ExecCall
    \/ ReturnCall
    \/ ExecReturn
    \/ ExecPush
    \/ ExecPop
    \/ ExecStore
    \/ ExecLoad
    \/ ExecCreateArray
    \/ ExecAppend
    \/ ExecGetElement
    \/ ExecSetElement
    \/ ExecSizeOf
    \/ ExecSquareRoot
    \/ ExecAbsolute
    \/ ExecLength
    \/ ExecConvertNumber
    \/ ExecConvertString
    \/ ExecStop
    \/ MainDone

Spec == Init /\ [][Next]_vars_all

\* a block that has run to its end returns to the statement that opened it
BlockReturns ==
    CollectDone \/ ReturnIf \/ WhileNext \/ RepeatNext \/ ForNext \/ ReturnCall
        \/ MainDone

\* The interpreter is one sequential process: while it has a step to take
\* it takes one.  A step is possible exactly while phase is "collect" or
\* "run", so the weak fairness of Next reads: the run ends, or its steps
\* never cease.
NeverStalls == []<>(phase \in {"done", "exit"}) \/ []<><<TRUE>>_vars_all

\* the programs that are one for loop, and the steps they take
ForLoopPrograms ==
    ForPrograms \cup ForBodyPrograms \cup {ForEntryProgram, ZeroStepProgram}

ForLoopInit == \E program \in ForLoopPrograms : Boot(program)

ForLoopNext ==
    \/ CollectLine
    \/ CollectDone
    \/ ExecSet
    \/ ExecAdd
    \/ ExecCreateArray
    \/ ExecAppend
    \/ ExecConvertString
    \/ ExecFor
    \/ ForNext
    \/ MainDone

ForLoopSpec ==
    ForLoopInit /\ [][ForLoopNext]_vars_all /\ NeverStalls
        /\ WF_vars_all(BlockReturns)

(***************************************************************************)
(* What the language description means by a block: every `if`, `while`,    *)
(* `repeat`, `for` and `define` line opens a block and every `end ...`     *)
(* line closes the innermost open one.                                     *)
(***************************************************************************)
BlockOpens(l) ==
    \/ startswith(l, "if ")
    \/ startswith(l, "while ")
    \/ startswith(l, "repeat ")
    \/ startswith(l, "for ")
    \/ startswith(l, "define ")

BlockCloses(l) == startswith(l, "end ")

RECURSIVE OwnEndFrom(_, _)
OwnEndFrom(i, depth) ==
    IF i >= line_count THEN line_count
    ELSE IF BlockCloses(trim(Line(i)))
    THEN IF depth = 1 THEN i ELSE OwnEndFrom(i + 1, depth - 1)
    ELSE IF BlockOpens(trim(Line(i))) THEN OwnEndFrom(i + 1, depth + 1)
    ELSE OwnEndFrom(i + 1, depth)

\* the line of the `end ...` that closes the block opened at line from
OwnEnd(from) == OwnEndFrom(from + 1, 1)

RECURSIVE OwnOtherwiseFrom(_, _)
OwnOtherwiseFrom(i, depth) ==
    IF i >= line_count THEN -1
    ELSE IF BlockCloses(trim(Line(i)))
    THEN IF depth = 1 THEN -1 ELSE OwnOtherwiseFrom(i + 1, depth - 1)
    ELSE IF BlockOpens(trim(Line(i))) THEN OwnOtherwiseFrom(i + 1, depth + 1)
    ELSE IF depth = 1 /\ trim(Line(i)) = "otherwise" THEN i
    ELSE OwnOtherwiseFrom(i + 1, depth)

\* the line of the `otherwise` of the if block opened at line from, or -1
OwnOtherwise(from) == OwnOtherwiseFrom(from + 1, 1)

\* the lines from .. to - 1
LineRange(from, to) == {i \in 0..(line_count - 1) : from <= i /\ i < to}

\* the lines the innermost execute() is asked to run
Running(f) == LineRange(f.i, f.end_excl)

\* the statement about to execute is of this form
About(form) == AtLine /\ CurForm = form

(***************************************************************************)
(* C1.  An `if <cond> then` block runs exactly one branch: the lines       *)
(* between `if` and `otherwise` (or `end if`) when the condition is true,  *)
(* the lines between `otherwise` and `end if` when it is false, none when  *)
(* it is false and there is no `otherwise`; whatever blocks are nested in  *)
(* the branches, control resumes after the block's own `end if`.           *)
(***************************************************************************)
C1IfRunsOneBranch ==
    [][About("if") /\ IndexOf(Tok, "then", 1) >= 0 =>
        LET cond == JoinFrom(Tok, 1, IndexOf(Tok, "then", 1))
            end_if == OwnEnd(CurIdx)
            otherwise == OwnOtherwise(CurIdx)
            branch == IF eval_condition(vars, cond)
                      THEN LineRange(CurIdx + 1,
                                     IF otherwise >= 0 THEN otherwise ELSE end_if)
                      ELSE IF otherwise >= 0 THEN LineRange(otherwise + 1, end_if)
                      ELSE {}
        IN  IF Len(frames') > Len(frames)
            THEN Running(frames'[Len(frames')]) = branch
                 /\ frames'[Len(frames')].ret = end_if + 1
            ELSE branch = {} /\ frames'[Len(frames')].i = end_if + 1
    ]_vars_all

\* the variable named name holds Number(x)
HoldsNum(vs, name, x) ==
    name \in DOMAIN vs /\ vs[name].type = TYPE_NUM /\ vs[name].num = x

(***************************************************************************)
(* C2.  The data stack is last-in first-out: a push (below capacity) puts  *)
(* its value on top, a pop on a non-empty stack stores the top value in    *)
(* the variable and removes it, a pop on an empty stack stores Number(0)   *)
(* and leaves the stack empty, and no other step (a call or a return       *)
(* included) touches the stack, so values pushed inside a called function  *)
(* are popped by the caller.                                               *)
(***************************************************************************)
\* the live part of the stack, bottom first
Stack == [k \in 1..stack_top |-> Cell(data_stack, k - 1)]

C2StackIsLifo ==
    /\ [](phase = "done" /\ lines = StackCallProgram =>
            /\ HoldsNum(vars, "a", <<2, 1>>) /\ HoldsNum(vars, "b", <<1, 1>>)
            /\ HoldsNum(vars, "c", <<0, 1>>) /\ HoldsNum(vars, "p", <<9, 1>>)
            /\ HoldsNum(vars, "q", <<7, 1>>) /\ HoldsNum(vars, "r", <<0, 1>>)
            /\ Stack = << >>)
    /\ [][IF About("push")
          THEN IF stack_top < MAX_STACK
               THEN Stack' = Append(Stack, resolve_num(vars, T(Tok, 1)))
               ELSE Stack' = Stack
          ELSE IF About("pop") /\ ~VarTableFull(vars, T(Tok, 4))
          THEN IF Stack # << >>
               THEN /\ HoldsNum(vars', T(Tok, 4), Stack[Len(Stack)])
                    /\ Stack' = SubSeq(Stack, 1, Len(Stack) - 1)
               ELSE /\ HoldsNum(vars', T(Tok, 4), <<0, 1>>)
                    /\ Stack' = << >>
          ELSE Stack' = Stack
       ]_vars_all

\* the caller has popped, newest first, what f and g pushed, then found the
\* stack empty
C2Witness ==
    /\ phase = "done"
    /\ lines = StackCallProgram
    /\ HoldsNum(vars, "p", <<9, 1>>)
    /\ HoldsNum(vars, "q", <<7, 1>>)
    /\ HoldsNum(vars, "r", <<0, 1>>)
    /\ hits[10] = 1

(***************************************************************************)
(* C3.  A call binds positionally from the state before the call: when    *)
(* the body starts, each parameter variable holds what its argument token  *)
(* resolved to just before the call statement began, also when an argument *)
(* token names one of the function's parameters.                           *)
(***************************************************************************)
\* the first token of a call's arguments
ArgStart(tok) == IF Len(tok) > 2 /\ T(tok, 2) = "with" THEN 3 ELSE 2

C3BindsPreCallValues ==
    [][About("call") /\ find_func(funcs, T(Tok, 1)) > 0
          /\ Len(frames') > Len(frames) =>
        LET params == funcs[find_func(funcs, T(Tok, 1))].params
        IN  \A i \in 1..Len(params) :
                ArgStart(Tok) + i - 1 < tc =>
                    /\ params[i] \in DOMAIN vars'
                    /\ vars'[params[i]] = resolve(vars, T(Tok, ArgStart(Tok) + i - 1))
    ]_vars_all

(***************************************************************************)
(* C4.  There is no per-call scope: a call writes its bindings to the      *)
(* global variable table, a return restores nothing, so what the body      *)
(* (recursive calls included) left in a parameter-named variable is the    *)
(* caller's value of that variable after the call.                         *)
(***************************************************************************)
C4NoPerCallScope ==
    /\ [](phase = "done" /\ lines = DownProgram =>
            /\ HoldsNum(vars, "n", <<0, 1>>)
            /\ HoldsNum(vars, "x", <<6, 1>>)
            /\ HoldsNum(vars, "depth", <<3, 1>>))
    /\ [][/\ About("call") /\ find_func(funcs, T(Tok, 1)) > 0
             /\ Len(frames') > Len(frames) =>
                LET params == funcs[find_func(funcs, T(Tok, 1))].params
                IN  Len(params) > 0 /\ ArgStart(Tok) < tc =>
                        /\ params[1] \in DOMAIN vars'
                        /\ vars'[params[1]] = resolve(vars, T(Tok, ArgStart(Tok)))
          /\ AtEnd /\ Top.kind = "call" => vars' = vars
       ]_vars_all

\* the recursion has run to depth 3 and returned: the caller's n, set to 50
\* before the call, is what the innermost call left
C4Witness ==
    /\ phase = "done"
    /\ lines = DownProgram
    /\ HoldsNum(vars, "n", <<0, 1>>)
    /\ HoldsNum(vars, "depth", <<3, 1>>)
    /\ hits[10] = 1
    /\ hits[3] = 2

(***************************************************************************)
(* C5.  The function table is immutable once the pre-pass has built it: a  *)
(* `define` line executed during the run adds no entry and changes none,   *)
(* and only moves control to the line after its own `end define`.          *)
(***************************************************************************)
C5TableImmutableAfterPrePass ==
    [][/\ phase = "run" => funcs' = funcs /\ func_count' = func_count
       /\ About("define") =>
            frames' = [frames EXCEPT ![Len(frames)].i = OwnEnd(CurIdx) + 1]
    ]_vars_all

(***************************************************************************)
(* Definitions as the language description counts them.                    *)
(***************************************************************************)
\* line i is a `define name ...` line
DefinesAt(i, name) ==
    LET tok == tokenize(trim(Line(i)), MAX_TOK)
    IN  Len(tok) >= 3 /\ T(tok, 0) = "define" /\ T(tok, 1) = name

\* the name line i defines, or "" when it is no define line
DefinedAt(i) ==
    LET tok == tokenize(trim(Line(i)), MAX_TOK)
    IN  IF Len(tok) >= 3 /\ T(tok, 0) = "define" THEN T(tok, 1) ELSE ""

\* line i lies inside the body of a define block
InsideDefine(i) ==
    \E j \in 0..(i - 1) : DefinedAt(j) # "" /\ i < OwnEnd(j)

\* the top-level define lines of name
TopLevelDefines(name) ==
    {i \in 0..(line_count - 1) : DefinesAt(i, name) /\ ~InsideDefine(i)}

\* the first of a non-empty set of lines
First(S) == CHOOSE i \in S : \A j \in S : i <= j

(***************************************************************************)
(* C6.  Forward references resolve: a call of a name that has a top-level  *)
(* define block, wherever that block lies in the program, emits no         *)
(* diagnostic and starts executing at the first line of the body of the    *)
(* first top-level define of that name.                                    *)
(***************************************************************************)
C6ForwardReferencesResolve ==
    /\ [](phase = "done" /\ lines = DefineProgram =>
            Len(out) >= 2 /\ out[1] = "first\n" /\ out[2] = "first\n")
    /\ [][About("call") /\ TopLevelDefines(T(Tok, 1)) # {}
             /\ ~BindFrom(vars, funcs[find_func(funcs, T(Tok, 1))].params, Tok,
                          ArgStart(Tok), 0).fatal =>
            /\ err' = err
            /\ Len(frames') = Len(frames) + 1
            /\ frames'[Len(frames')].kind = "call"
            /\ frames'[Len(frames')].i = First(TopLevelDefines(T(Tok, 1))) + 1
       ]_vars_all

\* the call on line 0 is executing the body of fwd, defined on line 1
C6Witness ==
    /\ phase = "run"
    /\ lines = DefineProgram
    /\ Len(frames) = 2
    /\ Top.kind = "call" /\ Top.idx = 0 /\ Top.i = 2
    /\ err = << >>
    /\ hits[0] = 1

(***************************************************************************)
(* C7.  The pre-pass registers nested definitions: when the pre-pass has   *)
(* finished and no statement has run, the function table has an entry for  *)
(* every define line of the program, those inside another function's body  *)
(* included.                                                               *)
(***************************************************************************)
C7PrePassRegistersNested ==
    phase = "run" /\ (\A i \in DOMAIN hits : hits[i] = 0) =>
        \A i \in 0..(line_count - 1) :
            DefinedAt(i) # "" => find_func(funcs, DefinedAt(i)) > 0

(***************************************************************************)
(* C8.  A for loop from a to b with step s runs its body once for each of  *)
(* a, a+s, a+2s, ... up to and including b (down to b when s < 0), in      *)
(* that order; the count does not depend on what the body writes to the    *)
(* loop variable; when the body leaves it alone the variable holds the     *)
(* last iterated value after the loop (1 to 3: total = 6, v = 3).          *)
(***************************************************************************)
\* the number an argument literal of a program stands for
Lit(s) == atof(s)

RECURSIVE Iterates(_, _, _)
\* a, a+s, a+2s, ... within the bound b
Iterates(a, b, s) ==
    IF (RGt(s, <<0, 1>>) /\ RLe(a, b)) \/ (RLt(s, <<0, 1>>) /\ RGe(a, b))
    THEN <<a>> \o Iterates(RAdd(a, s), b, s)
    ELSE << >>

RECURSIVE Sum(_)
Sum(xs) == IF xs = << >> THEN <<0, 1>> ELSE RAdd(Head(xs), Sum(Tail(xs)))

\* what the body appended to array seen, in order
Seen ==
    IF "seen" \in DOMAIN arrays
    THEN [k \in 1..arrays["seen"].size |-> NumOf(ArrayData(arrays["seen"], k - 1))]
    ELSE << >>

\* ForProgram(a, b, s, writes) has run its body for the values its, in order
ForOutcome(its, writes) ==
    /\ Seen = its
    /\ its # << >> => HoldsNum(vars, "total", Sum(its))
    /\ its # << >> /\ ~writes => HoldsNum(vars, "v", its[Len(its)])
    /\ its # << >> /\ writes => HoldsNum(vars, "v", <<100, 1>>)

C8ForIterates ==
    /\ \A a \in ForFrom, b \in ForTo, s \in ForStep, writes \in BOOLEAN :
          phase = "done" /\ lines = ForProgram(a, b, s, writes) =>
              ForOutcome(Iterates(Lit(a), Lit(b),
                                  IF s = "" THEN <<1, 1>> ELSE Lit(s)),
                         writes)
    /\ phase = "done" /\ lines = ForEntryProgram =>
          /\ Seen = Iterates(<<1, 1>>, <<3, 1>>, <<1, 1>>)
          /\ HoldsNum(vars, "v", <<3, 1>>)

\* for v from 1 to 3 with a body that overwrites v has still run 1, 2, 3
C8Witness ==
    /\ phase = "done"
    /\ lines = ForProgram("1", "3", "", TRUE)
    /\ Seen = <<<<1, 1>>, <<2, 1>>, <<3, 1>>>>
    /\ HoldsNum(vars, "total", <<6, 1>>)
    /\ hits[4] = 3

(***************************************************************************)
(* C9.  `repeat n times` reads n once, truncates it, and runs every line   *)
(* of its body, up to its own `end repeat`, exactly that many times even   *)
(* when the body changes n; for n <= 0 no line of the body runs and no     *)
(* variable changes; control continues after `end repeat`.                 *)
(***************************************************************************)
\* the lines of the block opened at line from, without its first and last
BodyOf(from) == LineRange(from + 1, OwnEnd(from))

\* the lines of BodyOf(from) that are not inside a nested block
DirectBodyOf(from) ==
    {i \in BodyOf(from) :
        /\ ~BlockOpens(trim(Line(i))) /\ ~BlockCloses(trim(Line(i)))
        /\ ~\E j \in BodyOf(from) :
              j < i /\ BlockOpens(trim(Line(j))) /\ i < OwnEnd(j)}

C9RepeatRunsBodyNTimes ==
    \A count \in {"0", "-1", "2", "2.9"}, kind \in {"none", "if", "for"} :
        phase = "done" /\ lines = RepeatProgram(count, kind) =>
            LET n == IF Trunc(Lit(count)) > 0 THEN Trunc(Lit(count)) ELSE 0
            IN  /\ \A i \in DirectBodyOf(1) : hits[i] = n
                /\ hits[OwnEnd(1) + 1] = 1
                /\ n = 0 => DOMAIN vars = {"n", "after"} /\ vars["n"].num = Lit(count)
                /\ n > 0 => HoldsNum(vars, "c", <<n, 1>>)

(***************************************************************************)
(* C10.  `stop` and `exit` end the run at once with status 0: the          *)
(* statement changes no storage, and after it nothing changes any more:    *)
(* no statement runs, no pending loop or call is resumed.                  *)
(***************************************************************************)
C10StopHaltsEverything ==
    /\ [](\A word \in {"stop", "exit"} :
            phase = "exit" /\ lines = StopProgram(word) =>
                /\ status = 0
                /\ hits[5] = 1 /\ hits[6] = 0 /\ hits[14] = 0
                /\ out = << >>
                /\ Stack = <<<<1, 1>>>>)
    /\ [][/\ About("stop") =>
                /\ phase' = "exit"
                /\ status' = 0
                /\ UNCHANGED <<vars, arrays, funcs, func_count, mem, data_stack,
                               stack_top, frames, out, err>>
          /\ phase = "exit" => UNCHANGED vars_all
       ]_vars_all

\* stop has executed inside if, while and repeat blocks of a function called
\* from a for loop, and the run has ended with those six activations pending
C10Witness ==
    /\ phase = "exit"
    /\ status = 0
    /\ lines = StopProgram("stop")
    /\ Len(frames) = 6
    /\ hits[5] = 1

(***************************************************************************)
(* C11.  Division by zero is defined: `divide a by b into q`, `set q to a  *)
(* divided by b` and `set q to a modulo b` store Number(0) in q whenever   *)
(* the numeric projection of b is 0 (b resolving to text included), emit   *)
(* no diagnostic, and execution continues at the next line.                *)
(***************************************************************************)
\* the divisor token of the statement about to execute, or "" when that
\* statement does not divide
DivisorToken ==
    IF About("divide") THEN T(Tok, 3)
    ELSE IF About("set") /\ tc >= 7 /\ T(Tok, 4) = "divided" /\ T(Tok, 5) = "by"
    THEN T(Tok, 6)
    ELSE IF About("set") /\ tc >= 6 /\ T(Tok, 4) = "modulo" THEN T(Tok, 5)
    ELSE ""

\* the variable that statement stores its result in
QuotientName == IF About("divide") THEN T(Tok, 5) ELSE T(Tok, 1)

\* the step is exec_line returning idx + 1 to the execute() loop it was
\* called from
ContinuesAtNextLine ==
    /\ phase' = phase
    /\ frames' = [frames EXCEPT ![Len(frames)].i = CurIdx + 1]

C11DivisionByZeroIsZero ==
    [][DivisorToken # "" /\ resolve_num(vars, DivisorToken) = <<0, 1>>
          /\ ~VarTableFull(vars, QuotientName) =>
        /\ HoldsNum(vars', QuotientName, <<0, 1>>)
        /\ err' = err
        /\ out' = out
        /\ ContinuesAtNextLine
    ]_vars_all

\* all three statements have divided by an unset word, which resolves to
\* text: q, r and m, each 7 before, are 0 and the run went on to its end
C11Witness ==
    /\ phase = "done"
    /\ lines = DivProgram("word")
    /\ HoldsNum(vars, "q", <<0, 1>>)
    /\ HoldsNum(vars, "r", <<0, 1>>)
    /\ HoldsNum(vars, "m", <<0, 1>>)
    /\ HoldsNum(vars, "after", <<1, 1>>)
    /\ err = << >>

(***************************************************************************)
(* C12.  Memory is bounds-checked: every address reads 0 until something   *)
(* is stored there; a store at an integer address outside 0..MAX_MEM-1     *)
(* changes no cell, one inside changes only that cell, to the numeric      *)
(* projection of the value; a load gives the cell's content, or Number(0)  *)
(* for an address out of range; no other statement changes memory.         *)
(***************************************************************************)
MemAddresses == 0..(MAX_MEM - 1)

\* the lines of the program that are store statements
StoreLines ==
    {i \in 0..(line_count - 1) :
        Form(trim(Line(i)), tokenize(trim(Line(i)), MAX_TOK)) = "store"}

\* x is an integer
IsInt(x) == x[2] = 1

C12MemoryIsBoundsChecked ==
    /\ []((\A i \in StoreLines : hits[i] = 0) =>
             \A a \in MemAddresses : Cell(mem, a) = <<0, 1>>)
    /\ [][IF About("store")
          THEN LET n == resolve_num(vars, T(Tok, 4))
                   v == resolve_num(vars, T(Tok, 1))
               IN  IsInt(n) =>
                     IF n[1] \in MemAddresses
                     THEN \A a \in MemAddresses :
                             Cell(mem', a) = IF a = n[1] THEN v ELSE Cell(mem, a)
                     ELSE mem' = mem
          ELSE /\ mem' = mem
               /\ About("load") /\ ~VarTableFull(vars, T(Tok, 5)) =>
                     LET n == resolve_num(vars, T(Tok, 3))
                     IN  IsInt(n) =>
                           HoldsNum(vars', T(Tok, 5),
                                    IF n[1] \in MemAddresses THEN Cell(mem, n[1])
                                    ELSE <<0, 1>>)
       ]_vars_all

\* address 1024 read 0, a store there changed nothing, and it reads 0 again,
\* while cell 3 has kept what was stored in it
C12Witness ==
    /\ phase = "run"
    /\ lines = MemProgram("1024")
    /\ CurIdx = 5
    /\ HoldsNum(vars, "before", <<0, 1>>)
    /\ HoldsNum(vars, "x", <<0, 1>>)
    /\ HoldsNum(vars, "y", <<5, 1>>)
    /\ DOMAIN mem = {3}

(***************************************************************************)
(* C13.  Arrays grow by writing: `set element i of array a to v` with i    *)
(* at or beyond the size (and below capacity) makes the size i + 1 and     *)
(* every skipped slot reads Number(0); in every state every slot at or     *)
(* beyond the size holds Number(0); `get element i of array a into x`      *)
(* stores Number(0) when i < 0, i >= size or a is no array.                *)
(***************************************************************************)
ArraySlots == 0..(MAX_ARRAY_SIZE - 1)

\* the size of array name, 0 when there is none
SizeOf(as, name) == IF name \in DOMAIN as THEN as[name].size ELSE 0

\* v is Number(0)
IsNumberZero(v) == v.type = TYPE_NUM /\ v.num = <<0, 1>>

C13ArraysGrowWithZeros ==
    /\ [](\A name \in DOMAIN arrays :
            \A j \in ArraySlots :
                j >= arrays[name].size => IsNumberZero(ArrayData(arrays[name], j)))
    /\ [][/\ About("set_element") /\ tc >= 8 /\ IsInt(resolve_num(vars, T(Tok, 2)))
             /\ ~ArrayTableFull(arrays, T(Tok, 5)) =>
                LET i == resolve_num(vars, T(Tok, 2))[1]
                    old == SizeOf(arrays, T(Tok, 5))
                IN  i >= old /\ i < MAX_ARRAY_SIZE =>
                      /\ SizeOf(arrays', T(Tok, 5)) = i + 1
                      /\ ArrayData(arrays'[T(Tok, 5)], i) = resolve(vars, T(Tok, 7))
                      /\ \A j \in old..(i - 1) :
                            IsNumberZero(ArrayData(arrays'[T(Tok, 5)], j))
          /\ About("get_element") /\ tc >= 8 /\ IsInt(resolve_num(vars, T(Tok, 2)))
             /\ ~VarTableFull(vars, T(Tok, 7)) =>
                LET i == resolve_num(vars, T(Tok, 2))[1]
                IN  IF i < 0 \/ i >= SizeOf(arrays, T(Tok, 5))
                    THEN HoldsNum(vars', T(Tok, 7), <<0, 1>>)
                    ELSE vars'[T(Tok, 7)] = ArrayData(arrays[T(Tok, 5)], i)
       ]_vars_all

\* a write at index 2 of a fresh array has made its size 3; the skipped slot
\* 1 and the slots beyond the size have been read as Number(0)
C13Witness ==
    /\ phase = "done"
    /\ lines = <<"set element 2 of array a to 7">> \o ArrayProbes
    /\ HoldsNum(vars, "n", <<3, 1>>)
    /\ HoldsNum(vars, "g1", <<0, 1>>)
    /\ HoldsNum(vars, "g3", <<0, 1>>)
    /\ HoldsNum(vars, "below", <<0, 1>>)
    /\ HoldsNum(vars, "unknown", <<0, 1>>)

(***************************************************************************)
(* C14.  An append to an array that already holds MAX_ARRAY_SIZE elements  *)
(* is a fatal resource error: the process ends with a failure status, as   *)
(* it does when the variable table or the array table is full.             *)
(***************************************************************************)
C14AppendAtCapacityIsFatal ==
    [][About("append") /\ SizeOf(arrays, T(Tok, 4)) = MAX_ARRAY_SIZE =>
        phase' = "exit" /\ status' = 1
    ]_vars_all

(***************************************************************************)
(* C15.  Every non-blank, non-comment line that matches no supported       *)
(* statement form (a wrong leading keyword, too few tokens, or a missing   *)
(* keyword such as an `if` line without `then`) emits a diagnostic naming  *)
(* its line number and text, changes no variable, array, stack, memory or  *)
(* function-table state, and execution continues at the next line.         *)
(***************************************************************************)
C15UnrecognizedLineIsDiagnosed ==
    [][AtLine /\ CurLine \in MalformedLines =>
          /\ err' = Append(err, Diag("unknown", CurIdx + 1, CurLine))
          /\ UNCHANGED <<vars, arrays, data_stack, stack_top, mem, funcs,
                         func_count>>
          /\ ContinuesAtNextLine
    ]_vars_all

(***************************************************************************)
(* C16.  Round trip: for a variable n holding a Number representable in    *)
(* the decimal rendering used for display, `convert n to string` followed  *)
(* by `convert n to number` leaves n holding the original Number;          *)
(* `convert n to number` on a Number and `convert n to string` on a Text   *)
(* are no-ops.                                                             *)
(***************************************************************************)
\* the display keeps this many significant decimal digits
DisplayDigits == 6

RECURSIVE DecimalPlaces(_, _)
\* the least k <= 9 with q dividing 10^k, or -1: the fraction digits of p / q
DecimalPlaces(q, k) ==
    IF Pow10(k) % q = 0 THEN k
    ELSE IF k >= 9 THEN -1
    ELSE DecimalPlaces(q, k + 1)

RECURSIVE StripTens(_)
StripTens(n) == IF n # 0 /\ n % 10 = 0 THEN StripTens(n \div 10) ELSE n

\* x is a decimal of at most DisplayDigits significant digits
Representable(x) ==
    /\ DecimalPlaces(x[2], 0) >= 0
    /\ StripTens(Abs(x[1]) * (Pow10(DecimalPlaces(x[2], 0)) \div x[2]))
           < Pow10(DisplayDigits)

IsConvertProgram ==
    \E a \in ConvertNumerators, b \in ConvertDenominators :
        lines = ConvertProgram(a, b)

C16ConvertRoundTrip ==
    /\ [](phase = "done" /\ IsConvertProgram
              /\ Representable(vars["orig"].num) =>
            /\ vars["shown"].type = TYPE_STR
            /\ vars["n"].type = TYPE_NUM
            /\ vars["n"].num = vars["orig"].num)
    /\ [][About("convert_number") /\ find_var(vars, T(Tok, 1))
              /\ vars[T(Tok, 1)].type = TYPE_NUM => vars' = vars]_vars_all
    /\ [][About("convert_string") /\ find_var(vars, T(Tok, 1))
              /\ vars[T(Tok, 1)].type = TYPE_STR => vars' = vars]_vars_all

\* 123456 / 1000 went through the text "123.456" and came back
C16Witness ==
    /\ phase = "done"
    /\ lines = ConvertProgram("123456", "1000")
    /\ vars["shown"].str = "123.456"
    /\ vars["n"] = [vars["orig"] EXCEPT !.str = "123.456"]
    /\ Representable(vars["orig"].num)

(***************************************************************************)
(* C17.  The statement `if 5 is greater than 3 then print "yes" otherwise  *)
(* print "no" end if` outputs `yes` and does not output `no`.              *)
(***************************************************************************)
C17OneLineIfPrintsYes ==
    phase = "done" /\ lines = OneLineIfProgram => out = << "yes\n" >>

(***************************************************************************)
(* C18.  resolve(token) is a pure function that applies its rules in fixed *)
(* priority: a string-literal token is the Text of its contents; else a    *)
(* token that parses entirely as a number is that Number, even if a        *)
(* variable of that name exists; else an existing variable gives a copy of *)
(* its value; else the Text of the token itself.  A bare word that is      *)
(* neither a number nor a variable is therefore the text of the word,      *)
(* never an error, and resolve creates no variable.                        *)
(***************************************************************************)
IsStringLiteral(token) ==
    Len(token) >= 2 /\ Ch(token, 1) = "\"" /\ Ch(token, Len(token)) = "\""

\* the number a token spells, when all of it is a decimal number
NumberSpelled ==
    [token \in {"7", "-2.5", "1e2"} |->
        CASE token = "7" -> <<7, 1>>
          [] token = "-2.5" -> <<-5, 2>>
          [] token = "1e2" -> <<100, 1>>]

IsText(v, s) == v.type = TYPE_STR /\ v.str = s

IsNumber(v, x) == v.type = TYPE_NUM /\ v.num = x

\* v is what the priority rules give for the token under the variables vs
ResolvedByPriority(vs, token, v) ==
    IF IsStringLiteral(token) THEN IsText(v, SubSeq(token, 2, Len(token) - 1))
    ELSE IF token \in DOMAIN NumberSpelled THEN IsNumber(v, NumberSpelled[token])
    ELSE IF token \in DOMAIN vs THEN v = vs[token]
    ELSE IsText(v, token)

IsResolveProgram == \E token \in ResolveTokens : lines = ResolveProgram(token)

C18ResolvePriority ==
    /\ [][IsResolveProgram /\ About("set") /\ T(Tok, 1) = "r" =>
            /\ phase' = "run"
            /\ err' = err
            /\ DOMAIN vars' = DOMAIN vars \cup {"r"}
            /\ ResolvedByPriority(vars, T(Tok, 3), vars'["r"])
            /\ \A name \in DOMAIN vars : vars'[name] = vars[name]
         ]_vars_all
    /\ [][IsResolveProgram /\ About("print") =>
            /\ vars' = vars
            /\ err' = err
            /\ \E v \in {resolve(vars, T(Tok, 1))} :
                  /\ ResolvedByPriority(vars, T(Tok, 1), v)
                  /\ out' = Append(out, StrOf(v) \o "\n")
         ]_vars_all

\* the token 7 gave the Number 7 although the variable named 7 holds 9
C18Witness ==
    /\ phase = "done"
    /\ lines = ResolveProgram("7")
    /\ IsNumber(vars["7"], <<9, 1>>)
    /\ IsNumber(vars["r"], <<7, 1>>)
    /\ out = << "7\n" >>

(***************************************************************************)
(* C19.  In a condition, a word sequence without the literal word `is`     *)
(* evaluates to false, and `not` negates the final boolean: for every lhs, *)
(* operator and rhs, `<lhs> is not <op> <rhs>` evaluates to the logical    *)
(* negation of `<lhs> is <op> <rhs>`; `greater than or equal to` and `less *)
(* than or equal to` are matched before `greater than` and `less than`, so *)
(* `a is greater than or equal to b` is true exactly when a >= b.          *)
(***************************************************************************)
\* the tail of the comparison the program is about, or "" for other programs
CondTailOf ==
    IF \E a \in CondLefts, b \in CondRights, tail \in CondTails :
           lines = CondProgram(a, b, tail)
    THEN CHOOSE tail \in CondTails :
             \E a \in CondLefts, b \in CondRights : lines = CondProgram(a, b, tail)
    ELSE ""

\* the branch guarded by the condition ran
Took(name) == name \in DOMAIN vars

BothNumbers == vars["a"].type = TYPE_NUM /\ vars["b"].type = TYPE_NUM

C19NotNegatesAndIsIsRequired ==
    phase = "done" /\ CondTailOf # "" =>
        /\ Took("plain") # Took("negated")
        /\ ~Took("wordless")
        /\ CondTailOf = "greater than or equal to b" /\ BothNumbers =>
               (Took("plain") <=> vars["a"].num[1] * vars["b"].num[2]
                                      >= vars["b"].num[1] * vars["a"].num[2])
        /\ CondTailOf = "less than or equal to b" /\ BothNumbers =>
               (Took("plain") <=> vars["a"].num[1] * vars["b"].num[2]
                                      <= vars["b"].num[1] * vars["a"].num[2])

\* 2 >= 2 held and its negation did not
C19Witness ==
    /\ phase = "done"
    /\ lines = CondProgram("2", "2", "greater than or equal to b")
    /\ Took("plain")
    /\ ~Took("negated")
    /\ ~Took("wordless")

(***************************************************************************)
(* C20.  For every block-opening line (if, while, repeat, for, define) of  *)
(* a well-nested program, find_end returns the index of that block's own   *)
(* matching `end ...` line, whatever blocks are nested inside its body     *)
(* (including a `for` block nested in an if, while, repeat or define       *)
(* body), and returns the line count when the block is never closed.       *)
(***************************************************************************)
\* the keyword the handler of a block-opening line passes to find_end
EndKeywordOf(l) ==
    IF startswith(l, "if ") THEN "end if"
    ELSE IF startswith(l, "while ") THEN "end while"
    ELSE IF startswith(l, "repeat ") THEN "end repeat"
    ELSE IF startswith(l, "for ") THEN "end for"
    ELSE "end define"

RECURSIVE NoStrayEndFrom(_, _)
\* no `end ...` line from line i on closes a block that was not opened
NoStrayEndFrom(i, depth) ==
    IF i >= line_count THEN TRUE
    ELSE IF BlockCloses(trim(Line(i)))
    THEN depth > 0 /\ NoStrayEndFrom(i + 1, depth - 1)
    ELSE IF BlockOpens(trim(Line(i))) THEN NoStrayEndFrom(i + 1, depth + 1)
    ELSE NoStrayEndFrom(i + 1, depth)

WellNested == NoStrayEndFrom(0, 0)

C20FindEndFindsOwnEnd ==
    AtLine /\ BlockOpens(CurLine) /\ WellNested =>
        find_end(CurIdx, EndKeywordOf(CurLine)) = OwnEnd(CurIdx)

(***************************************************************************)
(* C21.  The stack pointer stays within bounds in every reachable state:   *)
(* 0 <= stack_top <= MAX_STACK; `push` on a full stack changes neither the *)
(* stack contents nor stack_top, and `pop` on an empty stack does not make *)
(* stack_top negative.                                                     *)
(***************************************************************************)
C21StackPointerInBounds ==
    /\ [](0 <= stack_top /\ stack_top <= MAX_STACK)
    /\ [](\A k \in DOMAIN data_stack : 0 <= k /\ k < MAX_STACK)
    /\ [][About("push") /\ stack_top = MAX_STACK =>
             UNCHANGED <<data_stack, stack_top>> /\ ContinuesAtNextLine
         ]_vars_all
    /\ [][About("pop") /\ stack_top = 0 /\ ~VarTableFull(vars, T(Tok, 4)) =>
             /\ stack_top' = 0
             /\ data_stack' = data_stack
             /\ HoldsNum(vars', T(Tok, 4), <<0, 1>>)
         ]_vars_all

\* the push after the 513th was refused too: the stack is still full of 7s
C21Witness ==
    /\ lines = FullStackProgram
    /\ hits[1] = MAX_STACK + 1
    /\ hits[3] = 1
    /\ stack_top = MAX_STACK
    /\ Cell(data_stack, MAX_STACK - 1) = <<7, 1>>

(***************************************************************************)
(* C22.  A string-literal token resolves to exactly the characters between *)
(* its opening quote and its closing quote, or between the opening quote   *)
(* and the end of the line when the literal is unterminated: tokenize      *)
(* followed by resolve drops only the surrounding quote characters and no  *)
(* character of the contents.                                              *)
(***************************************************************************)
\* the literal without its opening quote and without its closing quote, if
\* it has one
ContentsOf(lit) ==
    IF Len(lit) >= 2 /\ Ch(lit, Len(lit)) = "\"" THEN SubSeq(lit, 2, Len(lit) - 1)
    ELSE SubSeq(lit, 2, Len(lit))

C22LiteralKeepsItsContents ==
    \A lit \in Literals :
        phase = "done" /\ lines = LiteralProgram(lit) =>
            /\ IsText(vars["s"], ContentsOf(lit))
            /\ out = << ContentsOf(lit) \o "\n" >>

(***************************************************************************)
(* C23.  Every statement handler in exec_line reads only tokens that       *)
(* exist: whenever a form's guard accepts a line of tc tokens, every       *)
(* tok[k] the handler reads has k < tc (in particular for `get element ... *)
(* into <var>`, `set element ... to <value>` and `size of array <name>     *)
(* into <var>`), so no variable is ever created or written under a name    *)
(* taken from a token the line does not contain.                           *)
(***************************************************************************)
\* the variables the step creates or writes
Written == {name \in DOMAIN vars' : name \notin DOMAIN vars \/ vars'[name] # vars[name]}

TokensOfLine == {Tok[k] : k \in 1..Len(Tok)}

C23HandlersReadOnlyTheirTokens ==
    [][About("get_element") \/ About("size") \/ About("set_element") =>
          Written \subseteq TokensOfLine
    ]_vars_all

(***************************************************************************)
(* C24.  In every reachable state the number of Function Table entries     *)
(* satisfies 0 <= func_count <= MAX_FUNCS, both during the pre-pass and    *)
(* during execution (for any program, including one that reaches a         *)
(* `define` line repeatedly inside a loop or a called function), so no     *)
(* entry is ever written outside the funcs table.                          *)
(***************************************************************************)
C24FunctionTableInBounds ==
    /\ 0 <= func_count
    /\ func_count <= MAX_FUNCS
    /\ ~oob

(***************************************************************************)
(* C25.  A Text value has numeric projection 0 in every arithmetic         *)
(* statement: `increment v [by n]` / `decrement v [by n]` on a variable    *)
(* currently holding Text sets v to Number(0 + n) / Number(0 - n),         *)
(* whatever number v held before it became Text (e.g. after `convert v to  *)
(* string` or `set v to a concatenated with b`), matching what `add v and  *)
(* n into v` produces in the same state.                                   *)
(***************************************************************************)
\* the variable the statement steps holds Text
StepsText ==
    /\ About("increment") \/ About("decrement")
    /\ find_var(vars, T(Tok, 1))
    /\ vars[T(Tok, 1)].type = TYPE_STR

\* the n of `by n`, or 1
StepAmount ==
    IF tc >= 4 /\ T(Tok, 2) = "by" THEN resolve_num(vars, T(Tok, 3)) ELSE <<1, 1>>

C25TextCountsAsZero ==
    /\ [][StepsText /\ About("increment") =>
             HoldsNum(vars', T(Tok, 1), StepAmount)]_vars_all
    /\ [][StepsText /\ About("decrement") =>
             HoldsNum(vars', T(Tok, 1), <<-StepAmount[1], StepAmount[2]>>)]_vars_all
    /\ [](\A becomes \in BecomesText :
             phase = "done" /\ lines = TextStepProgram(becomes, "increment v by 2") =>
                 vars["v"] = vars["w"])

(***************************************************************************)
(* C26.  At the start of every iteration of a `for` loop the loop variable *)
(* resolves to Number(d), where d is the loop's current counter value,     *)
(* whatever the previous iteration's body did to that variable (assigning  *)
(* it a number, assigning it text, or `convert`-ing it to string).         *)
(***************************************************************************)
\* the step starts an iteration of a for loop: the first one, or a later one
StartsIteration ==
    \/ About("for") /\ Len(frames') = Len(frames) + 1
    \/ AtEnd /\ Top.kind = "for" /\ Len(frames') = Len(frames)

C26LoopVariableIsTheCounter ==
    [][StartsIteration =>
          IsNumber(resolve(vars', frames'[Len(frames')].name),
                   frames'[Len(frames')].d)
    ]_vars_all

(***************************************************************************)
(* C27.  A `for` loop with finite numeric from, to and step values whose   *)
(* body terminates on every iteration itself terminates: for every choice  *)
(* of from, to and step (positive, negative or zero) control eventually    *)
(* reaches the line after `end for`.                                       *)
(***************************************************************************)
\* a for loop of the main program is about to start, or is running
InTopLevelFor ==
    /\ phase = "run"
    /\ \/ Len(frames) = 1 /\ InRange(Top) /\ CurForm = "for"
       \/ Len(frames) >= 2 /\ frames[2].kind = "for"

C27ForLoopTerminates == InTopLevelFor ~> ~InTopLevelFor

====
